---- MODULE Spec2Model ----
(***************************************************************************)
(* A model of the lyric-timing engine of the kero ai-worker:               *)
(*   - KoreanG2P._g2p                 (sofa/g2p/korean_g2p.py)             *)
(*   - SOFAAligner.align_words        (src/processors/sofa_aligner.py)     *)
(*   - LyricsProcessor.extract_lyrics (src/processors/lyrics_processor.py, *)
(*     the full-song SOFA pipeline, and                                    *)
(*     src/processors/whisperx_processor.py, the per-line pipeline)        *)
(*                                                                         *)
(* Times are integer milliseconds: every timestamp the code stores has     *)
(* been through round(x, 3), so round(x, 3) of a stored value is the value *)
(* itself and only the proportional splits need real rounding (Round3).    *)
(* Characters are Unicode code points.                                     *)
(***************************************************************************)
EXTENDS Integers, Sequences, FiniteSets, TLC

VARIABLES
    \* ---- KoreanG2P._g2p
    input_text,      \* the text given to _g2p (a sequence of code points)
    g2p_out,         \* the tuple _g2p returned, or NoResult before the call
    \* ---- extract_lyrics (one lyric job)
    pc,              \* position in extract_lyrics
    audio_exists,    \* whether the file at audio_path exists
    duration,        \* duration probed by sf.info (0 when the probe failed)
    lyrics_text,     \* the lyric text fetched from the API (a sequence of lines)
    sofa,            \* the SOFAAligner of the job: model handle and call outcome
    all_words,       \* the flat word list align_words returned
    lyrics_lines,    \* the timed lines being built
    trace,           \* what the job did: which strategies ran, how it ended
    onset_times,     \* outcome of the onset detection of the snapping stage
    \* ---- extract_lyrics of whisperx_processor.py (per-line alignment)
    vocal_range,       \* (audio_start, audio_end) of _detect_vocal_range
    api_line_segments, \* the lyric lines mapped onto the audio
    \* ---- _map_api_to_whisperx_timing (whisper_processor.py)
    mapping_call,      \* its arguments: the lyric lines and the ASR lines
    mapped_lines,      \* the list the function returned
    \* ---- SOFAAligner._align_chunked
    chunk_words,       \* the call: audio length, text, _align_single's result per chunk
    merged_words,      \* the list the function returned
    \* ---- KoreanG2P._syllable_to_phonemes
    syllable,          \* the character given to _syllable_to_phonemes
    syllable_phonemes, \* the list it returned
    \* ---- the prosody stages (_add_energy_to_words, ...)
    rms_levels,        \* the RMS curve of the vocals, block by block
    prosody_segments,  \* the lines handed from stage to stage, with their words
    stage,             \* the prosody stage to run next
    failed_stages,     \* the stages that took their except branch
    \* ---- a function called on its own
    call_args,         \* the function's name and its arguments
    call_result,       \* what the function returned
    \* ---- AIWorker.process_audio (worker.py)
    worker             \* position in process_audio, the message, what was published

vars == << input_text, g2p_out, pc, audio_exists, duration, lyrics_text, sofa,
           all_words, lyrics_lines, trace, onset_times, vocal_range,
           api_line_segments, mapping_call, mapped_lines, chunk_words,
           merged_words, syllable, syllable_phonemes, rms_levels,
           prosody_segments, stage, failed_stages, call_args, call_result,
           worker >>

g2pVars == << input_text, g2p_out >>
jobVars == << pc, audio_exists, duration, lyrics_text, sofa, all_words,
              lyrics_lines, trace, onset_times >>
perLineVars == << vocal_range, api_line_segments >>
mapVars == << mapping_call, mapped_lines >>
chunkVars == << chunk_words, merged_words >>
syllableVars == << syllable, syllable_phonemes >>
prosodyVars == << rms_levels, prosody_segments, stage, failed_stages >>
callVars == << call_args, call_result >>
workerVars == << worker >>
helperVars == << mapVars, chunkVars, syllableVars, prosodyVars, callVars, workerVars >>

NoResult == [called |-> FALSE]

\* the functions checked on their own are not being called
NoMap == mapping_call = <<>> /\ mapped_lines = NoResult
NoChunk == chunk_words = <<>> /\ merged_words = NoResult
NoSyllable == syllable = 0 /\ syllable_phonemes = NoResult
NoProsody ==
    rms_levels = <<>> /\ prosody_segments = <<>> /\ stage = "idle" /\ failed_stages = {}
NoCall == call_args = <<>> /\ call_result = NoResult
NoWorker == worker = [pc |-> "idle"]
NoHelpers == NoMap /\ NoChunk /\ NoSyllable /\ NoProsody /\ NoCall /\ NoWorker

\* ------------------------------------------------------------------------
\* Generic helpers
\* ------------------------------------------------------------------------
RECURSIVE SumSeq(_)
SumSeq(s) == IF s = <<>> THEN 0 ELSE Head(s) + SumSeq(Tail(s))

Max(a, b) == IF a >= b THEN a ELSE b
Min(a, b) == IF a <= b THEN a ELSE b

\* Python's round(n/d, 3) on a value in seconds, here round(n/d) on
\* milliseconds, n >= 0 and d > 0: to nearest, ties to even.
Round3(n, d) ==
    LET q == n \div d
        r == n % d
    IN  IF 2 * r < d THEN q
        ELSE IF 2 * r > d THEN q + 1
        ELSE IF q % 2 = 0 THEN q ELSE q + 1

\* ------------------------------------------------------------------------
\* KoreanG2P  (sofa/g2p/korean_g2p.py)
\* ------------------------------------------------------------------------
HANGUL_BASE == 44032      \* 0xAC00
HANGUL_LAST == 55203      \* 0xD7A3
NUM_NUCLEUS == 21
NUM_CODA == 28
SILENT_CODA == 0

ONSET_PHONEMES ==
    << "g", "gg", "n", "d", "dd", "r", "m", "b", "bb", "s",
       "ss", "", "j", "jj", "ch", "k", "t", "p", "h" >>

NUCLEUS_PHONEMES ==
    << "a", "ae", "ya", "yae", "eo", "e", "yeo", "ye", "o", "wa",
       "wae", "oe", "yo", "u", "wo", "we", "wi", "yu", "eu", "ui",
       "i" >>

CODA_PHONEMES ==
    << "", "K", "K", "K", "N", "N", "N", "T", "L", "L",
       "L", "L", "L", "L", "L", "L", "M", "P", "P", "T",
       "T", "NG", "T", "T", "K", "T", "P", "T" >>

ENGLISH_PHONEME_MAP ==
    [ b |-> <<"b">>,
      c |-> <<"k">>,
      d |-> <<"d">>,
      f |-> <<"p">>,
      g |-> <<"g">>,
      h |-> <<"h">>,
      j |-> <<"j">>,
      k |-> <<"k">>,
      l |-> <<"L">>,
      m |-> <<"m">>,
      n |-> <<"n">>,
      p |-> <<"p">>,
      q |-> <<"k">>,
      r |-> <<"r">>,
      s |-> <<"s">>,
      t |-> <<"t">>,
      v |-> <<"b">>,
      w |-> <<"u">>,
      x |-> <<"k", "s">>,
      z |-> <<"j">>,
      a |-> <<"a">>,
      e |-> <<"e">>,
      i |-> <<"i">>,
      o |-> <<"o">>,
      u |-> <<"u">>,
      y |-> <<"i">> ]

ENGLISH_WORD_MAP ==
    [ oh |-> <<"o">>,
      ah |-> <<"a">>,
      uh |-> <<"eo">>,
      eh |-> <<"e">>,
      ooh |-> <<"u">>,
      woo |-> <<"u">>,
      whoa |-> <<"wa">>,
      wow |-> <<"wa", "u">>,
      hey |-> <<"h", "e", "i">>,
      yay |-> <<"ya", "i">>,
      yo |-> <<"yo">>,
      na |-> <<"n", "a">>,
      la |-> <<"r", "a">>,
      da |-> <<"d", "a">>,
      yeah |-> <<"ya">>,
      yeh |-> <<"ye">>,
      baby |-> <<"b", "e", "i", "b", "i">>,
      babe |-> <<"b", "e", "i", "b">>,
      love |-> <<"r", "eo", "b">>,
      girl |-> <<"g", "eo", "L">>,
      boy |-> <<"b", "o", "i">>,
      my |-> <<"m", "a", "i">>,
      me |-> <<"m", "i">>,
      you |-> <<"yu">>,
      we |-> <<"wi">>,
      no |-> <<"n", "o">>,
      go |-> <<"g", "o">>,
      so |-> <<"s", "o">>,
      do |-> <<"d", "u">>,
      know |-> <<"n", "o">>,
      say |-> <<"s", "e", "i">>,
      stay |-> <<"s", "eu", "t", "e", "i">>,
      day |-> <<"d", "e", "i">>,
      way |-> <<"u", "e", "i">>,
      come |-> <<"k", "eo", "M">>,
      one |-> <<"u", "a", "N">>,
      time |-> <<"t", "a", "i", "M">>,
      night |-> <<"n", "a", "i", "T">>,
      light |-> <<"r", "a", "i", "T">>,
      right |-> <<"r", "a", "i", "T">>,
      life |-> <<"r", "a", "i", "P">>,
      heart |-> <<"h", "a", "T">>,
      stop |-> <<"s", "eu", "t", "a", "P">>,
      feel |-> <<"p", "i", "L">>,
      real |-> <<"r", "i", "eo", "L">>,
      fly |-> <<"p", "eu", "r", "a", "i">>,
      cry |-> <<"k", "eu", "r", "a", "i">>,
      try |-> <<"t", "eu", "r", "a", "i">>,
      why |-> <<"u", "a", "i">>,
      high |-> <<"h", "a", "i">>,
      fire |-> <<"p", "a", "i", "eo">>,
      more |-> <<"m", "o", "eo">>,
      like |-> <<"r", "a", "i", "K">>,
      take |-> <<"t", "e", "i", "K">>,
      make |-> <<"m", "e", "i", "K">>,
      break |-> <<"b", "eu", "r", "e", "i", "K">>,
      dance |-> <<"d", "ae", "N", "s", "eu">>,
      chance |-> <<"ch", "ae", "N", "s", "eu">>,
      forever |-> <<"p", "o", "r", "e", "b", "eo">>,
      never |-> <<"n", "e", "b", "eo">>,
      ever |-> <<"e", "b", "eo">>,
      over |-> <<"o", "b", "eo">>,
      under |-> <<"eo", "N", "d", "eo">>,
      away |-> <<"eo", "u", "e", "i">>,
      tonight |-> <<"t", "u", "n", "a", "i", "T">>,
      alright |-> <<"o", "L", "r", "a", "i", "T">>,
      hello |-> <<"h", "e", "L", "r", "o">>,
      world |-> <<"u", "eo", "L", "d", "eu">>,
      only |-> <<"o", "N", "r", "i">>,
      just |-> <<"j", "eo", "s", "eu", "T">>,
      wanna |-> <<"u", "a", "n", "a">>,
      gonna |-> <<"g", "o", "n", "a">>,
      gotta |-> <<"g", "a", "t", "a">>,
      lala |-> <<"r", "a", "r", "a">>,
      lalala |-> <<"r", "a", "r", "a", "r", "a">>,
      nanana |-> <<"n", "a", "n", "a", "n", "a">> ]


\* The characters of the model, by code point.  str.isalpha()/isdigit() are
\* modelled on ASCII, the Hangul compatibility jamo (letters that are no
\* syllable block) and the syllable blocks; every other code point used
\* here is punctuation or whitespace.
SPACE == 32
NEWLINE == 10
IsSpace(c) == c \in {SPACE, NEWLINE}
IsUpper(c) == c \in 65..90
IsLowerAscii(c) == c \in 97..122
IsDigit(c) == c \in 48..57
IsJamo(c) == c \in 12593..12686

LETTERS ==
    << "a", "b", "c", "d", "e", "f", "g", "h", "i", "j", "k", "l", "m",
       "n", "o", "p", "q", "r", "s", "t", "u", "v", "w", "x", "y", "z" >>
DIGITS == << "0", "1", "2", "3", "4", "5", "6", "7", "8", "9" >>

\* char.lower()
Lower(c) == IF IsUpper(c) THEN c + 32 ELSE c

\* The one-character string of a code point; "?" stands for a letter that
\* is in no table (no table key holds a "?").
Chr(c) ==
    IF IsLowerAscii(c) THEN LETTERS[c - 96]
    ELSE IF IsDigit(c) THEN DIGITS[c - 47]
    ELSE "?"

\* KoreanG2P._is_hangul
IsHangul(c) == HANGUL_BASE <= c /\ c <= HANGUL_LAST

\* char.isalpha() or char.isdigit()
IsAlnum(c) == IsUpper(c) \/ IsLowerAscii(c) \/ IsDigit(c) \/ IsJamo(c) \/ IsHangul(c)

\* (mutant) the nucleus index is not reduced modulo the syllables of one
\* onset
DecomposeNucleusUnreduced(c) ==
    LET code == c - HANGUL_BASE
    IN  IF code < 0 \/ code > 11171 THEN <<>>
        ELSE << code \div (NUM_NUCLEUS * NUM_CODA), code \div NUM_CODA, code % NUM_CODA >>

\* KoreanG2P._decompose: (onset, nucleus, coda), or <<>> for None
Decompose(c) ==
    LET code == c - HANGUL_BASE
    IN  IF code < 0 \/ code > 11171 THEN <<>>
        ELSE << code \div (NUM_NUCLEUS * NUM_CODA),
                (code % (NUM_NUCLEUS * NUM_CODA)) \div NUM_CODA,
                code % NUM_CODA >>

\* (mutant) the silent onset is emitted like any other onset
SyllableToPhonemesWithSilentOnset(c) ==
    LET result == Decompose(c)
    IN  IF result = <<>> THEN <<>>
        ELSE << ONSET_PHONEMES[result[1] + 1], NUCLEUS_PHONEMES[result[2] + 1] >>
             \o (IF result[3] > SILENT_CODA THEN << CODA_PHONEMES[result[3] + 1] >>
                 ELSE <<>>)

\* KoreanG2P._syllable_to_phonemes
SyllableToPhonemes(c) ==
    LET result == Decompose(c)
    IN  IF result = <<>> THEN <<>>
        ELSE LET onset == ONSET_PHONEMES[result[1] + 1]
                 nucleus == NUCLEUS_PHONEMES[result[2] + 1]
                 coda == CODA_PHONEMES[result[3] + 1]
             IN  (IF onset # "" THEN <<onset>> ELSE <<>>)
                 \o <<nucleus>>
                 \o (IF result[3] > SILENT_CODA /\ coda # "" THEN <<coda>> ELSE <<>>)

\* ''.join(...).lower() of a run of characters, as a string
RECURSIVE LowerString(_)
LowerString(run) ==
    IF run = <<>> THEN "" ELSE Chr(Lower(Head(run))) \o LowerString(Tail(run))

\* the per-character fallback of _english_word_to_phonemes
RECURSIVE PerCharPhonemes(_)
PerCharPhonemes(run) ==
    IF run = <<>> THEN <<>>
    ELSE LET ch == Chr(Lower(Head(run)))
         IN  (IF ch \in DOMAIN ENGLISH_PHONEME_MAP THEN ENGLISH_PHONEME_MAP[ch] ELSE <<>>)
             \o PerCharPhonemes(Tail(run))

\* KoreanG2P._english_word_to_phonemes
EnglishWordToPhonemes(run) ==
    LET lower == LowerString(run)
    IN  IF lower \in DOMAIN ENGLISH_WORD_MAP THEN ENGLISH_WORD_MAP[lower]
        ELSE PerCharPhonemes(run)

\* the flush of the pending non-Hangul run in _g2p
Flush(pending) == IF pending = <<>> THEN <<>> ELSE EnglishWordToPhonemes(pending)

\* the loop over the characters of one word in _g2p: the word's phonemes
RECURSIVE ScanWord(_, _, _)
ScanWord(word, pending, acc) ==
    IF word = <<>> THEN acc \o Flush(pending)
    ELSE LET c == Head(word)
         IN  IF IsHangul(c)
               THEN ScanWord(Tail(word), <<>>, acc \o Flush(pending) \o SyllableToPhonemes(c))
             ELSE IF IsAlnum(c)
               THEN ScanWord(Tail(word), Append(pending, c), acc)
             ELSE ScanWord(Tail(word), pending, acc)

\* input_text.split(): the maximal runs of non-whitespace characters
RECURSIVE SplitWords(_, _)
SplitWords(text, cur) ==
    IF text = <<>> THEN (IF cur = <<>> THEN <<>> ELSE <<cur>>)
    ELSE IF IsSpace(Head(text))
      THEN (IF cur = <<>> THEN <<>> ELSE <<cur>>) \o SplitWords(Tail(text), <<>>)
    ELSE SplitWords(Tail(text), Append(cur, Head(text)))

\* "if the word produced zero phonemes, add a minimal vowel phoneme"
FILLER_PHONEME == "eo"

\* (mutant) the filler is forgotten
WordPhonemesNoFiller(word) == ScanWord(word, <<>>, <<>>)

WordPhonemes(word) ==
    LET phs == ScanWord(word, <<>>, <<>>)
    IN  IF Len(phs) = 0 THEN <<FILLER_PHONEME>> ELSE phs

\* the loop over the words: word k's phonemes, then the SP separator
RECURSIVE WordLoop(_, _, _)
WordLoop(words, k, acc) ==
    IF k > Len(words) THEN acc
    ELSE LET phs == WordPhonemes(words[k])
         IN  WordLoop(words, k + 1,
                 [ph  |-> acc.ph \o phs \o <<"SP">>,
                  idx |-> acc.idx \o [i \in 1..Len(phs) |-> k - 1] \o <<-1>>])

\* "ensure exactly one trailing SP": pop while the last two are SP
RECURSIVE PopTrailingSP(_)
PopTrailingSP(s) ==
    IF Len(s.ph) >= 2 /\ s.ph[Len(s.ph)] = "SP" /\ s.ph[Len(s.ph) - 1] = "SP"
    THEN PopTrailingSP([ph  |-> SubSeq(s.ph, 1, Len(s.ph) - 1),
                        idx |-> SubSeq(s.idx, 1, Len(s.idx) - 1)])
    ELSE s

\* "ensure the sequence ends with SP"
EnsureFinalSP(s) ==
    IF s.ph[Len(s.ph)] # "SP"
    THEN [ph |-> Append(s.ph, "SP"), idx |-> Append(s.idx, -1)]
    ELSE s

\* "no more than 2 consecutive SP anywhere"
MAX_CONSECUTIVE_SP == 2
RECURSIVE CleanupSP(_, _, _)
CleanupSP(s, consecutive_sp, acc) ==
    IF s.ph = <<>> THEN acc
    ELSE LET rest == [ph |-> Tail(s.ph), idx |-> Tail(s.idx)]
             kept == [ph |-> Append(acc.ph, Head(s.ph)), idx |-> Append(acc.idx, Head(s.idx))]
         IN  IF Head(s.ph) = "SP"
               THEN CleanupSP(rest, consecutive_sp + 1,
                        IF consecutive_sp + 1 <= MAX_CONSECUTIVE_SP THEN kept ELSE acc)
             ELSE CleanupSP(rest, 0, kept)

\* (mutant) a text without words yields an empty phoneme sequence
EmptyTextNoSP == [ph_seq |-> <<>>, word_seq |-> <<>>, ph_idx_to_word_idx |-> <<>>]

\* the early return of _g2p for a text without words
EmptyTextResult == [ph_seq |-> <<"SP">>, word_seq |-> <<>>, ph_idx_to_word_idx |-> <<-1>>]

\* KoreanG2P._g2p
G2P(text) ==
    LET words == SplitWords(text, <<>>)
    IN  IF words = <<>> THEN EmptyTextResult
        ELSE LET looped == WordLoop(words, 1, [ph |-> <<"SP">>, idx |-> <<-1>>])
                 cleaned == CleanupSP(EnsureFinalSP(PopTrailingSP(looped)), 0,
                                      [ph |-> <<>>, idx |-> <<>>])
             IN  [ph_seq |-> cleaned.ph, word_seq |-> words,
                  ph_idx_to_word_idx |-> cleaned.idx]

\* ------------------------------------------------------------------------
\* Lyric text, lines and words of a lyric job
\* ------------------------------------------------------------------------
\* A lyric text is its sequence of lines; a line is
\*   [words  : the line's words, each word given by its number of counted
\*             characters (Hangul syllables and alphanumerics; 0 for a word
\*             of punctuation only, which is one character long),
\*    promo  : the line matches one of _clean_lyrics' drop patterns,
\*    korean : the line holds a Hangul syllable].
\* A blank line has no words.
Line(ws, promo, korean) == [words |-> ws, promo |-> promo, korean |-> korean]
Blank == Line(<<>>, FALSE, FALSE)

LyricsChoices ==
    { << Line(<<2, 1>>, FALSE, TRUE), Line(<<3>>, FALSE, TRUE) >>,
      << Line(<<2>>, FALSE, TRUE), Line(<<1>>, FALSE, TRUE), Line(<<2>>, FALSE, FALSE) >>,
      << Line(<<2>>, FALSE, TRUE), Blank, Line(<<0, 2>>, TRUE, FALSE) >>,
      << Blank >> }

\* [l.strip() for l in lyrics_text.split("\n") if l.strip()]
NonBlankLines(text) == SelectSeq(text, LAMBDA l : l.words # <<>>)

\* lyrics_text.split(): the words of all lines, in order
RECURSIVE AllLyricWords(_)
AllLyricWords(text) ==
    IF text = <<>> THEN <<>> ELSE Head(text).words \o AllLyricWords(Tail(text))

\* len(word) and len(line_text) in characters
WordLen(w) == Max(1, w)
TextLen(ws) == SumSeq([i \in 1..Len(ws) |-> WordLen(ws[i])]) + (Len(ws) - 1)

\* LyricsProcessor._count_chars on a word
CountChars(w) == w

TimedWord(w, s, e) == [text |-> w, start_time |-> s, end_time |-> e]
TimedLine(l, s, e, ws) == [text |-> l, start_time |-> s, end_time |-> e, words |-> ws]

\* ---- LyricsProcessor._build_word_timings, for line i (0-based) of n in
\* the proportional fallback: line_start = i * duration / n and
\* line_end = line_start + duration / n, unrounded
MIN_SPLIT_MS == 500
BuildWordTimings(line, i, n, dur) ==
    LET words == line.words
        char_counts == [k \in 1..Len(words) |-> Max(1, CountChars(words[k]))]
        total_chars == SumSeq(char_counts)
        short == dur < MIN_SPLIT_MS * n     \* line_end - line_start < 0.5
        \* start of a word at char_offset off, over the denominator n * total_chars
        At(off) == IF short THEN Round3(i * dur * total_chars + off * MIN_SPLIT_MS * n,
                                        n * total_chars)
                   ELSE Round3(i * dur * total_chars + off * dur, n * total_chars)
        Offset(k) == SumSeq(SubSeq(char_counts, 1, k - 1))
    IN  [k \in 1..Len(words) |->
            TimedWord(words[k], At(Offset(k)), At(Offset(k) + char_counts[k]))]

\* ---- the proportional fallback of extract_lyrics (lines 626-639)
ProportionalLines(text, dur) ==
    LET api_lines == NonBlankLines(text)
        n == Len(api_lines)
    IN  IF n > 0 /\ dur > 0
        THEN [i \in 1..n |->
                TimedLine(api_lines[i], Round3((i - 1) * dur, n), Round3(i * dur, n),
                          BuildWordTimings(api_lines[i], i - 1, n, dur))]
        ELSE <<>>

\* ---- LyricsProcessor._group_words_into_lines
PLACEHOLDER_MS == 300
RECURSIVE GroupLineWords(_, _, _, _, _)
GroupLineWords(expected_words, word_cursor, line_words, grouped, aw) ==
    IF expected_words = <<>> THEN [words |-> line_words, cursor |-> word_cursor]
    ELSE IF word_cursor < Len(aw)
      THEN LET w == aw[word_cursor + 1]
           IN  GroupLineWords(Tail(expected_words), word_cursor + 1,
                   Append(line_words,
                          TimedWord(Head(expected_words), w.start_time, w.end_time)),
                   grouped, aw)
    ELSE LET last_end ==
                 IF line_words # <<>> THEN line_words[Len(line_words)].end_time
                 ELSE IF grouped # <<>> /\ grouped[Len(grouped)].words # <<>>
                   THEN LET pw == grouped[Len(grouped)].words IN pw[Len(pw)].end_time
                 ELSE 0
         IN  GroupLineWords(Tail(expected_words), word_cursor,
                 Append(line_words,
                        TimedWord(Head(expected_words), last_end, last_end + PLACEHOLDER_MS)),
                 grouped, aw)

RECURSIVE GroupLoop(_, _, _, _)
GroupLoop(lines, word_cursor, grouped, aw) ==
    IF lines = <<>> THEN grouped
    ELSE LET g == GroupLineWords(Head(lines).words, word_cursor, <<>>, grouped, aw)
             lw == g.words
         IN  GroupLoop(Tail(lines), g.cursor,
                 IF lw # <<>>
                 THEN Append(grouped, TimedLine(Head(lines), lw[1].start_time,
                                                lw[Len(lw)].end_time, lw))
                 ELSE grouped,
                 aw)

\* (mutant) a word list shorter than the lyrics is rejected as a whole
GroupWordsAllOrNothing(aw, text) ==
    IF Len(aw) < Len(AllLyricWords(text)) THEN <<>>
    ELSE GroupLoop(NonBlankLines(text), 0, <<>>, aw)

GroupWordsIntoLines(aw, text) == GroupLoop(NonBlankLines(text), 0, <<>>, aw)

\* ---- LyricsProcessor._clean_lyrics: a line is dropped when its text is
\* shorter than 2 characters or matches a drop pattern
MIN_TEXT_LEN == 2
CleanLyrics(segments) ==
    SelectSeq(segments,
              LAMBDA s : ~s.text.promo /\ TextLen(s.text.words) >= MIN_TEXT_LEN)

\* ---- LyricsProcessor._refine_with_energy_onsets (lyrics_processor.py)
TOLERANCE_MS == 150
FIRST_LINE_TOLERANCE_MS == 500
\* the outcome of the onset detection: the onsets found, or a failure of
\* librosa to load or analyse the audio
Onsets(times) == [ok |-> TRUE, times |-> times]
Failed == [ok |-> FALSE, times |-> {}]

Abs(x) == IF x < 0 THEN -x ELSE x

\* onset_times[np.argmin(np.abs(onset_times - start))]: the nearest onset,
\* the earliest one on a tie (onset_times is ascending)
NearestOnset(onsets, start) ==
    CHOOSE o \in onsets :
        \A p \in onsets : Abs(o - start) < Abs(p - start)
                          \/ (Abs(o - start) = Abs(p - start) /\ o <= p)

\* the snapped start of word i (1-based) of segment seg_idx (1-based)
SnappedStart(words, i, seg_idx, line_start, onsets) ==
    LET start == words[i].start_time
        is_first_word == (seg_idx = 1 /\ i = 1)
        tol == IF is_first_word THEN FIRST_LINE_TOLERANCE_MS ELSE TOLERANCE_MS
    IN  IF onsets = {} THEN start
        ELSE LET new_start == NearestOnset(onsets, start)
                 prev_end == IF i > 1 THEN words[i - 1].end_time ELSE line_start
                 floor == IF is_first_word
                          THEN Max(0, start - FIRST_LINE_TOLERANCE_MS)
                          ELSE prev_end
             IN  IF Abs(new_start - start) <= tol /\ new_start >= floor
                 THEN new_start ELSE start

RefineSegment(segment, seg_idx, onsets) ==
    LET words == segment.words
        n == Len(words)
        starts == [i \in 1..n |->
                      SnappedStart(words, i, seg_idx, segment.start_time, onsets)]
        \* "adjust end times to be seamless"; the last word keeps its end
        refined == [i \in 1..n |->
                      [words[i] EXCEPT !.start_time = starts[i],
                                       !.end_time = IF i < n THEN starts[i + 1] ELSE @]]
    IN  IF n = 0 THEN segment
        ELSE [segment EXCEPT !.words = refined,
                             !.start_time = refined[1].start_time,
                             !.end_time = refined[n].end_time]

RefineWithEnergyOnsets(segments, onsets) ==
    IF ~onsets.ok THEN segments
    ELSE [s \in 1..Len(segments) |-> RefineSegment(segments[s], s, onsets.times)]

\* ---- LyricsProcessor._enforce_monotonic_lines
MIN_LINE_MS == 500
MIN_REDISTRIBUTE_MS == 100

\* "redistribute words within the new boundaries"
RedistributeWords(words, line_start, line_end) ==
    LET line_dur == Max(line_end - line_start, MIN_REDISTRIBUTE_MS)
        chars == [k \in 1..Len(words) |-> Max(1, CountChars(words[k].text))]
        total_chars == SumSeq(chars)
        At(cum) == Round3(line_start * total_chars + line_dur * cum, total_chars)
        Before(k) == SumSeq(SubSeq(chars, 1, k - 1))
    IN  [k \in 1..Len(words) |->
            [words[k] EXCEPT !.start_time = At(Before(k)),
                             !.end_time = At(Before(k) + chars[k])]]

\* (mutant) the clamp of line.start to prev_end is left out
EnforceLineNoClamp(line0, prev_end) ==
    LET words == line0.words
        line == IF words # <<>>
                THEN [line0 EXCEPT !.start_time = words[1].start_time,
                                   !.end_time = words[Len(words)].end_time]
                ELSE line0
        line_end == IF line.end_time <= line.start_time
                    THEN line.start_time + MIN_LINE_MS ELSE line.end_time
    IN  [line |-> [line EXCEPT !.end_time = line_end], prev_end |-> line_end]

\* one iteration of the loop: the line as left by it, and the new prev_end
EnforceLine(line0, prev_end) ==
    LET words == line0.words
        line == IF words # <<>>
                THEN [line0 EXCEPT !.start_time = words[1].start_time,
                                   !.end_time = words[Len(words)].end_time]
                ELSE line0
        overlap == line.start_time < prev_end
        line_start == IF overlap THEN prev_end ELSE line.start_time
        pushed == overlap /\ line.end_time <= line_start
        line_end1 == IF pushed
                     THEN line_start + Max(line.end_time - line.start_time, MIN_LINE_MS)
                     ELSE line.end_time
        words1 == IF overlap /\ words # <<>>
                  THEN RedistributeWords(words, line_start, line_end1)
                  ELSE words
        line_end == IF line_end1 <= line_start THEN line_start + MIN_LINE_MS ELSE line_end1
    IN  [line |-> [line EXCEPT !.start_time = line_start, !.end_time = line_end,
                               !.words = words1],
         prev_end |-> line_end]

RECURSIVE EnforceLoop(_, _, _)
EnforceLoop(lines, prev_end, done) ==
    IF lines = <<>> THEN done
    ELSE LET r == EnforceLine(Head(lines), prev_end)
         IN  EnforceLoop(Tail(lines), r.prev_end, Append(done, r.line))

EnforceMonotonicLines(lines) == EnforceLoop(lines, 0, <<>>)

\* ------------------------------------------------------------------------
\* One lyric job through LyricsProcessor.extract_lyrics (lyrics_processor.py)
\* ------------------------------------------------------------------------
\* Bounds of the environment: timestamps the aligner may return are
\* multiples of 400 ms up to MaxTick ticks.
MaxTick == 3
Ticks == { k * 400 : k \in 0..MaxTick }

\* durations sf.info may report (ms); 0 is also what a failed probe leaves
ProbedDurations == { 2000 }

\* onset positions librosa may detect (frames of 16 ms)
OnsetPositions == { 112, 496 }

\* A word as SOFAAligner._align_chunk builds it: start is the least start
\* and end the greatest end of the word's phoneme spans, so start <= end;
\* nothing orders the words of a merged, cursor-matched list among themselves.
AlignedWord == { [start_time |-> s, end_time |-> e] : s \in Ticks, e \in Ticks }
AlignedWords == { w \in AlignedWord : w.start_time <= w.end_time }

\* the word lists align_words may return for a text of n words: one entry
\* per word that got a phoneme span, in order
AlignedLists(n) == UNION { [1..m -> AlignedWords] : m \in 0..n }

\* what can go wrong inside align_words
AlignFaults ==
    { "none", "audio_missing", "read_error", "engine_error",
      "vocab_missing", "infer_error" }

JobInit ==
    /\ pc = "probe"
    /\ audio_exists \in BOOLEAN
    /\ duration = 0
    /\ lyrics_text = <<>>
    /\ sofa = [loaded |-> FALSE, released |-> FALSE, outcome |-> "none"]
    /\ all_words = <<>>
    /\ lyrics_lines = <<>>
    /\ trace = [fetched |-> FALSE, fallback |-> FALSE, ended |-> "no"]
    /\ onset_times = Failed

NoPerLine == vocal_range = <<0, 0>> /\ api_line_segments = <<>>

Init ==
    /\ input_text = <<>>
    /\ g2p_out = NoResult
    /\ JobInit
    /\ NoPerLine
    /\ NoHelpers

\* sf.info(audio_path): the duration, or 0 when the probe raises (it does
\* for a missing file)
ProbeDuration ==
    /\ pc = "probe"
    /\ duration' \in (IF audio_exists THEN ProbedDurations ELSE {}) \cup {0}
    /\ pc' = "fetch"
    /\ UNCHANGED << audio_exists, lyrics_text, sofa, all_words, lyrics_lines,
                    trace, onset_times >>
    /\ UNCHANGED g2pVars
    /\ UNCHANGED helperVars
    /\ UNCHANGED perLineVars

\* _fetch_lyrics_from_api returned nothing: the empty result is returned
FetchNoLyrics ==
    /\ pc = "fetch"
    /\ pc' = "done"
    /\ trace' = [trace EXCEPT !.ended = "returned"]
    /\ UNCHANGED << audio_exists, duration, lyrics_text, sofa, all_words,
                    lyrics_lines, onset_times >>
    /\ UNCHANGED g2pVars
    /\ UNCHANGED helperVars
    /\ UNCHANGED perLineVars

\* _fetch_lyrics_from_api returned a text
FetchLyrics ==
    /\ pc = "fetch"
    /\ lyrics_text' \in LyricsChoices
    /\ trace' = [trace EXCEPT !.fetched = TRUE]
    /\ pc' = "align"
    /\ UNCHANGED << audio_exists, duration, sofa, all_words, lyrics_lines,
                    onset_times >>
    /\ UNCHANGED g2pVars
    /\ UNCHANGED helperVars
    /\ UNCHANGED perLineVars

\* SOFAAligner.align_words (sofa_aligner.py 481-525) as called at line 608:
\*   _load_audio raises FileNotFoundError for a missing file, which
\*     align_words re-raises;
\*   a text without words returns [] before the engine is loaded;
\*   _align_chunk loads the engine, then the vocabulary: _get_ph_to_idx
\*     raises FileNotFoundError when neither the config nor the dictionary
\*     is there, and align_words re-raises that too;
\*   every other exception is caught and [] is returned.
\* In extract_lyrics an exception of align_words skips release_model and
\* the grouping (except Exception, line 621).
AlignWordsOutcome(fault, words) ==
    LET no_words == AllLyricWords(lyrics_text) = <<>>
        raised == fault = "audio_missing" \/ (fault = "vocab_missing" /\ ~no_words)
        loaded == ~no_words /\ fault \in {"none", "vocab_missing", "infer_error"}
    IN  [raised |-> raised,
         loaded |-> loaded,
         words  |-> IF fault = "none" /\ ~no_words THEN words ELSE <<>>]

AlignWords ==
    /\ pc = "align"
    /\ \E fault \in AlignFaults,
          words \in AlignedLists(Len(AllLyricWords(lyrics_text))) :
        /\ (fault = "audio_missing") <=> ~audio_exists
        /\ fault # "none" => words = <<>>
        /\ LET out == AlignWordsOutcome(fault, words)
           IN  /\ sofa' = [sofa EXCEPT !.loaded = out.loaded,
                                       !.outcome = IF out.raised THEN "raised"
                                                   ELSE "returned"]
               /\ all_words' = out.words
               /\ pc' = IF out.raised THEN "fallback" ELSE "release"
    /\ UNCHANGED << audio_exists, duration, lyrics_text, lyrics_lines, trace,
                    onset_times >>
    /\ UNCHANGED g2pVars
    /\ UNCHANGED helperVars
    /\ UNCHANGED perLineVars

\* SOFAAligner.release_model
ReleaseModel ==
    /\ pc = "release"
    /\ sofa' = [sofa EXCEPT !.loaded = FALSE, !.released = TRUE]
    /\ pc' = "group"
    /\ UNCHANGED << audio_exists, duration, lyrics_text, all_words, lyrics_lines,
                    trace, onset_times >>
    /\ UNCHANGED g2pVars
    /\ UNCHANGED helperVars
    /\ UNCHANGED perLineVars

\* "if all_words: lyrics_lines = self._group_words_into_lines(...)"
GroupWords ==
    /\ pc = "group"
    /\ lyrics_lines' = IF all_words # <<>>
                       THEN GroupWordsIntoLines(all_words, lyrics_text)
                       ELSE <<>>
    /\ pc' = "fallback"
    /\ UNCHANGED << audio_exists, duration, lyrics_text, sofa, all_words, trace,
                    onset_times >>
    /\ UNCHANGED g2pVars
    /\ UNCHANGED helperVars
    /\ UNCHANGED perLineVars

\* "if not lyrics_lines: ... proportional distribution"
Fallback ==
    /\ pc = "fallback"
    /\ IF lyrics_lines = <<>>
       THEN /\ lyrics_lines' = ProportionalLines(lyrics_text, duration)
            /\ trace' = [trace EXCEPT !.fallback = TRUE]
       ELSE UNCHANGED << lyrics_lines, trace >>
    /\ pc' = "clean"
    /\ UNCHANGED << audio_exists, duration, lyrics_text, sofa, all_words,
                    onset_times >>
    /\ UNCHANGED g2pVars
    /\ UNCHANGED helperVars
    /\ UNCHANGED perLineVars

Clean ==
    /\ pc = "clean"
    /\ lyrics_lines' = CleanLyrics(lyrics_lines)
    /\ pc' = "refine"
    /\ UNCHANGED << audio_exists, duration, lyrics_text, sofa, all_words, trace,
                    onset_times >>
    /\ UNCHANGED g2pVars
    /\ UNCHANGED helperVars
    /\ UNCHANGED perLineVars

\* Stage 3: the onsets are whatever librosa finds in the audio; loading a
\* missing file fails
Refine ==
    /\ pc = "refine"
    /\ onset_times' \in (IF audio_exists
                         THEN { Onsets(t) : t \in SUBSET OnsetPositions }
                         ELSE {}) \cup {Failed}
    /\ lyrics_lines' = RefineWithEnergyOnsets(lyrics_lines, onset_times')
    /\ pc' = "enforce"
    /\ UNCHANGED << audio_exists, duration, lyrics_text, sofa, all_words, trace >>
    /\ UNCHANGED g2pVars
    /\ UNCHANGED helperVars
    /\ UNCHANGED perLineVars

\* Stage 4, then the return of the result (the prosody stages 5 and 6 only
\* add annotations to the words)
Enforce ==
    /\ pc = "enforce"
    /\ lyrics_lines' = EnforceMonotonicLines(lyrics_lines)
    /\ trace' = [trace EXCEPT !.ended = "returned"]
    /\ pc' = "done"
    /\ UNCHANGED << audio_exists, duration, lyrics_text, sofa, all_words,
                    onset_times >>
    /\ UNCHANGED g2pVars
    /\ UNCHANGED helperVars
    /\ UNCHANGED perLineVars

Next ==
    \/ ProbeDuration
    \/ FetchNoLyrics
    \/ FetchLyrics
    \/ AlignWords
    \/ ReleaseModel
    \/ GroupWords
    \/ Fallback
    \/ Clean
    \/ Refine
    \/ Enforce

Spec == Init /\ [][Next]_vars

\* ------------------------------------------------------------------------
\* One lyric job through extract_lyrics of whisperx_processor.py: lines
\* mapped proportionally onto the vocal range, each line aligned on its
\* own audio slice, then onset snapping
\* ------------------------------------------------------------------------
PADDING_MS == 2000
DEFAULT_SPAN_MS == 500

\* the length of the audio file of the job (ms)
AudioLengths == { 8000 }
AudioLength == CHOOSE l \in AudioLengths : TRUE

\* what _detect_vocal_range may return: the first and last voiced frame,
\* (0, duration) or, when the audio cannot be read at all, (0, 0)
VocalRanges ==
    IF audio_exists
    THEN { <<0, AudioLength>>, <<1000, AudioLength - 1000>>, <<3000, 3000>> }
    ELSE { <<0, 0>> }

Segment(l, s, e) == [text |-> l, start |-> s, end |-> e]

\* LyricsProcessor._count_line_chars
CountLineChars(line) == Max(SumSeq(line.words), 1)

\* LyricsProcessor._map_lines_proportional
MapLinesProportional(text, audio_start, audio_end) ==
    LET api_lines == NonBlankLines(text)
        total_duration == Max(audio_end - audio_start, DEFAULT_SPAN_MS)
        char_counts == [k \in 1..Len(api_lines) |-> CountLineChars(api_lines[k])]
        total_chars == SumSeq(char_counts)
        At(cum) == Round3(audio_start * total_chars + total_duration * cum, total_chars)
        Before(k) == SumSeq(SubSeq(char_counts, 1, k - 1))
    IN  [k \in 1..Len(api_lines) |->
            Segment(api_lines[k], At(Before(k)), At(Before(k) + char_counts[k]))]

\* the even distribution used when no vocal range was found (lines 547-559)
MapLinesEvenly(text, dur) ==
    LET lines == NonBlankLines(text)
        n == Len(lines)
    IN  IF n > 0 /\ dur > 0
        THEN [i \in 1..n |-> Segment(lines[i], Round3((i - 1) * dur, n), Round3(i * dur, n))]
        ELSE [i \in 1..n |-> Segment(lines[i], 0, DEFAULT_SPAN_MS)]

\* Stage 3
MapLines(text, range, dur) ==
    IF range[2] > range[1] THEN MapLinesProportional(text, range[1], range[2])
    ELSE MapLinesEvenly(text, dur)

\* words timed in proportion to their character counts inside the segment
\* (lines 600-620 and 673-693)
WordsByChars(seg) ==
    LET words == seg.text.words
        seg_duration == Max(seg.end - seg.start, DEFAULT_SPAN_MS)
        char_counts == [k \in 1..Len(words) |-> Max(1, words[k])]
        total_ch == SumSeq(char_counts)
        At(cum) == Round3(seg.start * total_ch + seg_duration * cum, total_ch)
        Before(k) == SumSeq(SubSeq(char_counts, 1, k - 1))
    IN  TimedLine(seg.text, seg.start, seg.end,
            [k \in 1..Len(words) |->
                TimedWord(words[k], At(Before(k)), At(Before(k) + char_counts[k]))])

\* words of equal length inside the segment (lines 625-640 and 701-723)
WordsEvenly(seg) ==
    LET words == seg.text.words
        n == Len(words)
        d == Max(seg.end - seg.start, DEFAULT_SPAN_MS)
    IN  TimedLine(seg.text, seg.start, seg.end,
            [k \in 1..n |->
                TimedWord(words[k], Round3(seg.start * n + (k - 1) * d, n),
                          Round3(seg.start * n + k * d, n))])

\* the audio slice of a segment: padded by 2 s on each side, clipped to the
\* audio (lines 644-647)
SliceStart(seg) == Max(0, seg.start - PADDING_MS)
SliceEnd(seg) == Min(AudioLength, seg.end + PADDING_MS)

\* the line built from the words aligned on the slice (lines 655-670)
AlignedLine(seg, seg_words) ==
    LET time_offset == SliceStart(seg)
        line_words == [k \in 1..Len(seg_words) |->
                          TimedWord(seg_words[k].text,
                                    seg_words[k].start_time + time_offset,
                                    seg_words[k].end_time + time_offset)]
    IN  TimedLine(seg.text, line_words[1].start_time,
                  line_words[Len(line_words)].end_time, line_words)

\* the body of the loop over the segments, for the words the aligner
\* returned on the slice (none when it failed or found nothing)
SegmentLine(seg, seg_words) ==
    IF ~seg.text.korean THEN WordsByChars(seg)
    ELSE IF seg.end <= seg.start THEN WordsEvenly(seg)
    ELSE IF seg_words # <<>> THEN AlignedLine(seg, seg_words)
    ELSE WordsByChars(seg)

\* in-slice timestamps: multiples of 2 s inside the slice
SliceTicks(len) == { t \in { k * 2000 : k \in 0..MaxTick } : t <= len }

\* the word lists _align_single may return for the words ws on a slice of
\* the given length: a span (start <= end, inside the slice) for each word
\* of a subsequence of ws
RECURSIVE SliceAlignments(_, _)
SliceAlignments(ws, len) ==
    IF ws = <<>> THEN { <<>> }
    ELSE LET rest == SliceAlignments(Tail(ws), len)
         IN  rest \cup
             { <<TimedWord(Head(ws), span[1], span[2])>> \o r :
                 span \in { p \in SliceTicks(len) \X SliceTicks(len) : p[1] <= p[2] },
                 r \in rest }

\* ---- LyricsProcessor._refine_with_energy_onsets (whisperx_processor.py)
PLSnappedStart(words, i, line_start, onsets) ==
    LET start == words[i].start_time
    IN  IF onsets = {} THEN start
        ELSE LET new_start == NearestOnset(onsets, start)
                 prev_end == IF i > 1 THEN words[i - 1].end_time ELSE line_start
             IN  IF Abs(new_start - start) <= TOLERANCE_MS /\ new_start >= prev_end
                 THEN new_start ELSE start

PLRefineSegment(segment, onsets) ==
    LET words == segment.words
        n == Len(words)
        starts == [i \in 1..n |-> PLSnappedStart(words, i, segment.start_time, onsets)]
    IN  [segment EXCEPT !.words =
            [i \in 1..n |->
                [words[i] EXCEPT !.start_time = starts[i],
                                 !.end_time = IF i < n THEN starts[i + 1]
                                              ELSE segment.end_time]]]

PLRefineWithEnergyOnsets(segments, onsets) ==
    IF ~onsets.ok THEN segments
    ELSE [s \in 1..Len(segments) |-> PLRefineSegment(segments[s], onsets.times)]

PLInit ==
    /\ input_text = <<>>
    /\ g2p_out = NoResult
    /\ pc = "pl_probe"
    /\ audio_exists \in BOOLEAN
    /\ duration = 0
    /\ lyrics_text = <<>>
    /\ sofa = [loaded |-> FALSE, released |-> FALSE, outcome |-> "none"]
    /\ all_words = <<>>
    /\ lyrics_lines = <<>>
    /\ trace = [fetched |-> FALSE, fallback |-> FALSE, ended |-> "no"]
    /\ onset_times = Failed
    /\ NoPerLine
    /\ NoHelpers

PLProbeDuration ==
    /\ pc = "pl_probe"
    /\ duration' \in (IF audio_exists THEN AudioLengths ELSE {}) \cup {0}
    /\ pc' = "pl_fetch"
    /\ UNCHANGED << audio_exists, lyrics_text, sofa, all_words, lyrics_lines,
                    trace, onset_times, vocal_range, api_line_segments >>
    /\ UNCHANGED g2pVars
    /\ UNCHANGED helperVars

PLFetchNoLyrics ==
    /\ pc = "pl_fetch"
    /\ pc' = "pl_done"
    /\ trace' = [trace EXCEPT !.ended = "returned"]
    /\ UNCHANGED << audio_exists, duration, lyrics_text, sofa, all_words,
                    lyrics_lines, onset_times, vocal_range, api_line_segments >>
    /\ UNCHANGED g2pVars
    /\ UNCHANGED helperVars

PLFetchLyrics ==
    /\ pc = "pl_fetch"
    /\ lyrics_text' \in LyricsChoices
    /\ trace' = [trace EXCEPT !.fetched = TRUE]
    /\ pc' = "pl_vad"
    /\ UNCHANGED << audio_exists, duration, sofa, all_words, lyrics_lines,
                    onset_times, vocal_range, api_line_segments >>
    /\ UNCHANGED g2pVars
    /\ UNCHANGED helperVars

\* Stage 2
PLDetectVocalRange ==
    /\ pc = "pl_vad"
    /\ vocal_range' \in VocalRanges
    /\ pc' = "pl_map"
    /\ UNCHANGED << audio_exists, duration, lyrics_text, sofa, all_words,
                    lyrics_lines, trace, onset_times, api_line_segments >>
    /\ UNCHANGED g2pVars
    /\ UNCHANGED helperVars

\* Stage 3
PLMapLines ==
    /\ pc = "pl_map"
    /\ api_line_segments' = MapLines(lyrics_text, vocal_range, duration)
    /\ pc' = "pl_open"
    /\ UNCHANGED << audio_exists, duration, lyrics_text, sofa, all_words,
                    lyrics_lines, trace, onset_times, vocal_range >>
    /\ UNCHANGED g2pVars
    /\ UNCHANGED helperVars

\* Stage 4 without segments: nothing to align
PLNoSegments ==
    /\ pc = "pl_open"
    /\ api_line_segments = <<>>
    /\ pc' = "pl_clean"
    /\ UNCHANGED << audio_exists, duration, lyrics_text, sofa, all_words,
                    lyrics_lines, trace, onset_times, vocal_range, api_line_segments >>
    /\ UNCHANGED g2pVars
    /\ UNCHANGED helperVars

\* Stage 4: sofa._load_audio(audio_path) succeeded
PLLoadAudio ==
    /\ pc = "pl_open"
    /\ api_line_segments # <<>>
    /\ audio_exists
    /\ pc' = "pl_segment"
    /\ UNCHANGED << audio_exists, duration, lyrics_text, sofa, all_words,
                    lyrics_lines, trace, onset_times, vocal_range, api_line_segments >>
    /\ UNCHANGED g2pVars
    /\ UNCHANGED helperVars

\* Stage 4: creating the aligner or loading the audio raised (it does for a
\* missing file): every line gets evenly spaced words (lines 698-723)
PLLoadAudioFailed ==
    /\ pc = "pl_open"
    /\ api_line_segments # <<>>
    /\ lyrics_lines' = [k \in 1..Len(api_line_segments) |->
                           WordsEvenly(api_line_segments[k])]
    /\ trace' = [trace EXCEPT !.fallback = TRUE]
    /\ pc' = "pl_clean"
    /\ UNCHANGED << audio_exists, duration, lyrics_text, sofa, all_words,
                    onset_times, vocal_range, api_line_segments >>
    /\ UNCHANGED g2pVars
    /\ UNCHANGED helperVars

\* Stage 4: one iteration of the loop over the segments; the aligner is
\* called on the slice of a Korean segment and may fail or return nothing
PLAlignSegment ==
    /\ pc = "pl_segment"
    /\ Len(lyrics_lines) < Len(api_line_segments)
    /\ LET seg == api_line_segments[Len(lyrics_lines) + 1]
           called == seg.text.korean /\ seg.end > seg.start
       IN  \E seg_words \in
                 (IF called
                  THEN SliceAlignments(seg.text.words, SliceEnd(seg) - SliceStart(seg))
                  ELSE { <<>> }) :
              /\ lyrics_lines' = Append(lyrics_lines, SegmentLine(seg, seg_words))
              /\ sofa' = [sofa EXCEPT !.loaded = @ \/ called]
    /\ UNCHANGED << pc, audio_exists, duration, lyrics_text, all_words, trace,
                    onset_times, vocal_range, api_line_segments >>
    /\ UNCHANGED g2pVars
    /\ UNCHANGED helperVars

\* Stage 4: sofa.release_model() after the loop
PLReleaseModel ==
    /\ pc = "pl_segment"
    /\ Len(lyrics_lines) = Len(api_line_segments)
    /\ sofa' = [sofa EXCEPT !.loaded = FALSE, !.released = TRUE]
    /\ pc' = "pl_clean"
    /\ UNCHANGED << audio_exists, duration, lyrics_text, all_words, lyrics_lines,
                    trace, onset_times, vocal_range, api_line_segments >>
    /\ UNCHANGED g2pVars
    /\ UNCHANGED helperVars

PLClean ==
    /\ pc = "pl_clean"
    /\ lyrics_lines' = CleanLyrics(lyrics_lines)
    /\ pc' = "pl_refine"
    /\ UNCHANGED << audio_exists, duration, lyrics_text, sofa, all_words, trace,
                    onset_times, vocal_range, api_line_segments >>
    /\ UNCHANGED g2pVars
    /\ UNCHANGED helperVars

\* Stage 5, then the return of the result to the worker
PLRefine ==
    /\ pc = "pl_refine"
    /\ onset_times' \in (IF audio_exists
                         THEN { Onsets(t) : t \in SUBSET OnsetPositions }
                         ELSE {}) \cup {Failed}
    /\ lyrics_lines' = PLRefineWithEnergyOnsets(lyrics_lines, onset_times')
    /\ trace' = [trace EXCEPT !.ended = "returned"]
    /\ pc' = "pl_done"
    /\ UNCHANGED << audio_exists, duration, lyrics_text, sofa, all_words,
                    vocal_range, api_line_segments >>
    /\ UNCHANGED g2pVars
    /\ UNCHANGED helperVars

PLNext ==
    \/ PLProbeDuration
    \/ PLFetchNoLyrics
    \/ PLFetchLyrics
    \/ PLDetectVocalRange
    \/ PLMapLines
    \/ PLNoSegments
    \/ PLLoadAudio
    \/ PLLoadAudioFailed
    \/ PLAlignSegment
    \/ PLReleaseModel
    \/ PLClean
    \/ PLRefine

SpecPerLine == PLInit /\ [][PLNext]_vars

\* ------------------------------------------------------------------------
\* KoreanG2P._g2p on bounded texts
\* ------------------------------------------------------------------------
\* The text is any string of at most MaxTextLen characters over Alphabet,
\* or one of the sample texts.
MaxTextLen == 4

\* whitespace, 한 (onset h, nucleus a, coda n), 아 (silent onset, no coda),
\* the Latin letters o and h, the capital O, "!", the digit 7, the jamo ㅋ
Alphabet == { SPACE, 54620, 50500, 111, 104, 79, 33, 55, 12619 }

\* "오빠 bye"; "baby"; "oh 사랑해 baby"
SampleTexts ==
    { << 50724, 48736, 32, 98, 121, 101 >>,
      << 98, 97, 98, 121 >>,
      << 111, 104, 32, 49324, 46993, 54644, 32, 98, 97, 98, 121 >>,
      << 32, 10, 32 >> }

Texts == SampleTexts \cup UNION { [1..n -> Alphabet] : n \in 0..MaxTextLen }

\* no lyric job runs while _g2p is exercised
NoJob ==
    /\ pc = "idle" /\ audio_exists = FALSE /\ duration = 0 /\ lyrics_text = <<>>
    /\ sofa = [loaded |-> FALSE, released |-> FALSE, outcome |-> "none"]
    /\ all_words = <<>> /\ lyrics_lines = <<>>
    /\ trace = [fetched |-> FALSE, fallback |-> FALSE, ended |-> "no"]
    /\ onset_times = Failed

G2PInit ==
    /\ input_text \in Texts
    /\ g2p_out = NoResult
    /\ NoJob
    /\ NoPerLine
    /\ NoHelpers

CallG2P ==
    /\ ~g2p_out.called
    /\ g2p_out' = [called |-> TRUE] @@ G2P(input_text)
    /\ UNCHANGED << input_text >>
    /\ UNCHANGED jobVars
    /\ UNCHANGED perLineVars
    /\ UNCHANGED helperVars

G2PNext == CallG2P

SpecG2P == G2PInit /\ [][G2PNext]_vars

\* ------------------------------------------------------------------------
\* LyricsProcessor._map_api_to_whisperx_timing  (whisper_processor.py)
\* ------------------------------------------------------------------------
\* A text is the sequence of its words; a word is a token that stands for
\* the word as _text_similarity sees it (lower case, punctuation removed).
WINDOW_SIZE == 15
UNMATCHED_STEP_MS == 500
None == 0

\* _text_similarity(a, b) >= SIMILARITY_THRESHOLD (0.25), and the order of
\* two scores, on the Jaccard overlap |a & b| / |a | b| of the word sets
WordSet(text) == { text[k] : k \in 1..Len(text) }
Overlap(a, b) == Cardinality(WordSet(a) \cap WordSet(b))
Union(a, b) == Cardinality(WordSet(a) \cup WordSet(b))
ReachesThreshold(a, b) == Union(a, b) > 0 /\ 4 * Overlap(a, b) >= Union(a, b)
ScoresHigher(a, b, c) ==
    \* _text_similarity(a, b) > _text_similarity(a, c)
    Overlap(a, b) * Union(a, c) > Overlap(a, c) * Union(a, b)

\* the search of one lyric line in wx_lines[wx_search_start : search_end]:
\* the first index (1-based) with the highest score above 0, or None
BestIndex(api_line, wx_lines, wx_search_start) ==
    LET search_end == Min(wx_search_start + WINDOW_SIZE, Len(wx_lines))
        range == (wx_search_start + 1)..search_end
        scoring == { i \in range : Overlap(api_line, wx_lines[i].text) > 0 }
        best == { i \in scoring :
                    \A j \in scoring :
                        /\ ~ScoresHigher(api_line, wx_lines[j].text, wx_lines[i].text)
                        /\ (j < i => ScoresHigher(api_line, wx_lines[i].text,
                                                  wx_lines[j].text)) }
    IN  IF best = {} THEN None ELSE CHOOSE i \in best : TRUE

\* (mutant) the search of the next lyric line starts again at the first ASR
\* line
SearchFromFirstLine(best_idx) == 0

\* "wx_search_start = best_idx + 1": the number of ASR lines the next search
\* skips, best_idx being 1-based here
NextSearchStart(best_idx) == best_idx

\* the matching loop (lines 607-625): per lyric line the index of the ASR
\* line matched to it, or None
RECURSIVE MatchLoop(_, _, _, _)
MatchLoop(api_lines, wx_lines, wx_search_start, acc) ==
    IF Len(acc) = Len(api_lines) THEN acc
    ELSE LET api_line == api_lines[Len(acc) + 1]
             best_idx == BestIndex(api_line, wx_lines, wx_search_start)
         IN  IF best_idx # None /\ ReachesThreshold(api_line, wx_lines[best_idx].text)
             THEN MatchLoop(api_lines, wx_lines, NextSearchStart(best_idx),
                            Append(acc, best_idx))
             ELSE MatchLoop(api_lines, wx_lines, wx_search_start, Append(acc, None))

MatchedResults(api_lines, wx_lines) == MatchLoop(api_lines, wx_lines, 0, <<>>)

\* whether lyric line idx is matched to an ASR line; with no ASR line the
\* function returns before the loop (lines 600-603)
MatchedAt(api_lines, wx_lines, idx) ==
    wx_lines # <<>> /\ MatchedResults(api_lines, wx_lines)[idx] # None

\* next_match_indices[idx] and prev_match_idx at idx (0 when there is none;
\* positions are 1-based here, differences are what the code uses)
NextMatchIdx(matched, idx) ==
    LET later == { k \in idx..Len(matched) : matched[k] # None }
    IN  IF later = {} THEN None ELSE CHOOSE k \in later : \A j \in later : k <= j
PrevMatchIdx(matched, idx) ==
    LET earlier == { k \in 1..idx : matched[k] # None }
    IN  IF earlier = {} THEN None ELSE CHOOSE k \in earlier : \A j \in earlier : k >= j

\* n words of equal length from start_n / den over max(end - start, 0.5)
EvenWords(api_line, start_n, end_n, den) ==
    LET n == Len(api_line)
        total_n == Max(end_n - start_n, UNMATCHED_STEP_MS * den)
    IN  [j \in 1..n |->
            TimedWord(api_line[j],
                      Round3(start_n * n + (j - 1) * total_n, den * n),
                      Round3(start_n * n + j * total_n, den * n))]

\* a matched line: the text of the lyric line on the timing of the ASR line
\* (lines 637-678)
MatchedLine(api_line, wx_line) ==
    LET wx_words == wx_line.words
        line_start == wx_words[1].start_time
        line_end == CHOOSE e \in { wx_words[k].end_time : k \in 1..Len(wx_words) } :
                        \A k \in 1..Len(wx_words) : wx_words[k].end_time <= e
        mapped_words ==
            IF api_line # <<>> /\ wx_words # <<>>
            THEN IF Len(api_line) = Len(wx_words)
                 THEN [k \in 1..Len(api_line) |->
                          TimedWord(api_line[k], wx_words[k].start_time,
                                    wx_words[k].end_time)]
                 ELSE EvenWords(api_line, line_start, line_end, 1)
            ELSE << TimedWord(api_line, wx_line.start_time, wx_line.end_time) >>
    IN  TimedLine(api_line, wx_line.start_time, wx_line.end_time, mapped_words)

\* an unmatched line: its span interpolated between, or extrapolated from,
\* the nearest matched lines (lines 680-723); times are fractions over den
UnmatchedLine(api_line, idx, matched, wx_lines) ==
    LET prev_match_idx == PrevMatchIdx(matched, idx)
        next_match_idx == NextMatchIdx(matched, idx)
        has_prev == prev_match_idx # None
        has_next == next_match_idx # None
        prev_line == wx_lines[matched[prev_match_idx]]
        next_line == wx_lines[matched[next_match_idx]]
        den == IF has_prev /\ has_next THEN next_match_idx - prev_match_idx
               ELSE IF has_next THEN next_match_idx
               ELSE 1
        start_n ==
            IF has_prev /\ has_next
            THEN prev_line.start_time * den
                 + (next_line.start_time - prev_line.start_time) * (idx - prev_match_idx)
            ELSE IF has_next THEN next_line.start_time * idx
            ELSE IF has_prev
            THEN prev_line.end_time + UNMATCHED_STEP_MS * (idx - prev_match_idx)
            ELSE 0
        end_0 ==
            IF has_prev /\ has_next
            THEN prev_line.end_time * den
                 + (next_line.end_time - prev_line.end_time) * (idx - prev_match_idx)
            ELSE IF has_next THEN next_line.end_time * idx
            ELSE start_n + UNMATCHED_STEP_MS
        end_n == IF end_0 < start_n THEN start_n + UNMATCHED_STEP_MS * den ELSE end_0
    IN  TimedLine(api_line, Round3(start_n, den), Round3(end_n, den),
                  EvenWords(api_line, start_n, end_n, den))

\* result.sort(key=lambda l: l["start_time"]): a stable sort
RECURSIVE InsertByStart(_, _)
InsertByStart(sorted, line) ==
    IF sorted = <<>> THEN << line >>
    ELSE IF sorted[Len(sorted)].start_time <= line.start_time THEN Append(sorted, line)
    ELSE Append(InsertByStart(SubSeq(sorted, 1, Len(sorted) - 1), line),
                sorted[Len(sorted)])

RECURSIVE SortByStart(_, _)
SortByStart(lines, acc) ==
    IF lines = <<>> THEN acc
    ELSE SortByStart(Tail(lines), InsertByStart(acc, Head(lines)))

MapApiToWhisperxTiming(api_lines, wx_lines) ==
    IF wx_lines = <<>>
    THEN [k \in 1..Len(api_lines) |-> TimedLine(api_lines[k], 0, 0, <<>>)]
    ELSE LET matched == MatchedResults(api_lines, wx_lines)
             result == [idx \in 1..Len(api_lines) |->
                          IF matched[idx] # None
                          THEN MatchedLine(api_lines[idx], wx_lines[matched[idx]])
                          ELSE UnmatchedLine(api_lines[idx], idx, matched, wx_lines)]
         IN  SortByStart(result, <<>>)

\* ---- the calls explored
MaxApiLines == 3
MaxWxLines == 2

\* lyric and ASR texts: words 1, 2 and 3 in a few combinations
MapTexts == { <<1>>, <<2, 1>>, <<3, 3>> }

\* the instants (ms) at which an ASR line may start or end
WxInstants == { 0, 1000, 10000, 12000, 19000, 20000, 22000 }

\* an ASR line as _build_lines_from_whisperx builds it from a segment whose
\* words split the span evenly: start of the first word, greatest end
WxLine(text, s, e) ==
    LET n == Len(text)
    IN  TimedLine(text, s, e,
            [k \in 1..n |-> TimedWord(text[k], s + ((k - 1) * (e - s)) \div n,
                                      s + (k * (e - s)) \div n)])

WxLineChoices == { WxLine(t, s, e) : t \in MapTexts,
                     s \in WxInstants, e \in { x \in WxInstants : x > 0 } }

\* time-ordered ASR lines that do not overlap each other
OrderedWxLines ==
    { ls \in UNION { [1..m -> WxLineChoices] : m \in 0..MaxWxLines } :
        /\ \A k \in 1..Len(ls) : ls[k].start_time < ls[k].end_time
        /\ \A k \in 1..(Len(ls) - 1) : ls[k].end_time <= ls[k + 1].start_time }

ApiLineLists == UNION { [1..n -> MapTexts] : n \in 1..MaxApiLines }

MapInit ==
    /\ mapping_call \in { [api_lines |-> a, wx_lines |-> w] :
                            a \in ApiLineLists, w \in OrderedWxLines }
    /\ mapped_lines = NoResult
    /\ input_text = <<>> /\ g2p_out = NoResult
    /\ NoJob /\ NoPerLine /\ NoChunk /\ NoSyllable /\ NoProsody
    /\ NoCall /\ NoWorker

CallMapApiToWhisperxTiming ==
    /\ ~mapped_lines.called
    /\ mapped_lines' = [called |-> TRUE,
                        lines |-> MapApiToWhisperxTiming(mapping_call.api_lines,
                                                         mapping_call.wx_lines)]
    /\ UNCHANGED << mapping_call, g2pVars, jobVars, perLineVars, chunkVars,
                    syllableVars, prosodyVars, callVars, workerVars >>

MapNext == CallMapApiToWhisperxTiming

SpecMap == MapInit /\ [][MapNext]_vars

\* ------------------------------------------------------------------------
\* SOFAAligner._align_chunked and _split_text_for_chunks  (sofa_aligner.py)
\* ------------------------------------------------------------------------
\* Times in ms; 44100 samples are 1000 ms, so chunk_samples, overlap_samples
\* and step_samples are whole numbers of ms.  A lyric text is a sequence of
\* lines, a line the sequence of its words, a word the pair <<line, k>>
\* that tells the occurrences of equal words apart; <<>> is a blank line.
CHUNK_DURATION_MS == 480000
CHUNK_OVERLAP_MS == 30000
StepMs == CHUNK_DURATION_MS - CHUNK_OVERLAP_MS

\* chunk_starts: 0, step, 2 * step, ... below the length of the audio
ChunkStarts(total) ==
    LET num_chunks == (total + StepMs - 1) \div StepMs
    IN  [i \in 1..num_chunks |-> (i - 1) * StepMs]

\* (mutant) the number of lines per chunk is rounded down
SplitTextRoundedDown(text, num_chunks) ==
    LET lines == SelectSeq(text, LAMBDA l : l # <<>>)
        lines_per_chunk == Max(1, Len(lines) \div num_chunks)
    IN  IF lines = <<>> THEN [i \in 1..num_chunks |-> <<>>]
        ELSE [i \in 1..num_chunks |->
                 LET start == (i - 1) * lines_per_chunk
                     end == Min(start + lines_per_chunk, Len(lines))
                 IN  IF start < end THEN SubSeq(lines, start + 1, end) ELSE <<>>]

\* SOFAAligner._split_text_for_chunks: the lines of each chunk
SplitTextForChunks(text, num_chunks) ==
    LET lines == SelectSeq(text, LAMBDA l : l # <<>>)
        lines_per_chunk == Max(1, (Len(lines) + num_chunks - 1) \div num_chunks)
    IN  IF lines = <<>> THEN [i \in 1..num_chunks |-> <<>>]
        ELSE [i \in 1..num_chunks |->
                 LET start == (i - 1) * lines_per_chunk
                     end == Min(start + lines_per_chunk, Len(lines))
                 IN  IF start < end THEN SubSeq(lines, start + 1, end) ELSE <<>>]

\* the words of a chunk's text, as g2p splits them
RECURSIVE ChunkTextWords(_)
ChunkTextWords(lines) ==
    IF lines = <<>> THEN <<>> ELSE Head(lines) \o ChunkTextWords(Tail(lines))

\* the timestamps of the chunk's words moved by the chunk's start
OffsetWords(words, time_offset) ==
    [k \in 1..Len(words) |->
        TimedWord(words[k].text, words[k].start_time + time_offset,
                  words[k].end_time + time_offset)]

\* (mutant) every word of every chunk is kept
KeepAllWords(words, i, num_chunks, sample_start) == words

\* "for overlapping regions, only keep words from the earlier chunk": the
\* words of chunk i (1-based) that go into the merged list
KeptWords(words, i, num_chunks, sample_start) ==
    IF i < num_chunks
    THEN LET boundary == sample_start + StepMs
         IN  SelectSeq(words, LAMBDA w : w.start_time < boundary)
    ELSE words

\* the loop over the chunks; results[i] is what _align_single returned for
\* chunk i (not called, hence ignored, when the chunk has no text)
RECURSIVE ChunkLoop(_, _, _, _, _)
ChunkLoop(chunk_starts, text_chunks, results, i, all) ==
    IF i > Len(chunk_starts) THEN all
    ELSE IF text_chunks[i] = <<>>
      THEN ChunkLoop(chunk_starts, text_chunks, results, i + 1, all)
    ELSE ChunkLoop(chunk_starts, text_chunks, results, i + 1,
                   all \o KeptWords(OffsetWords(results[i], chunk_starts[i]),
                                    i, Len(chunk_starts), chunk_starts[i]))

AlignChunked(total, text, results) ==
    LET chunk_starts == ChunkStarts(total)
        text_chunks == SplitTextForChunks(text, Len(chunk_starts))
    IN  SortByStart(ChunkLoop(chunk_starts, text_chunks, results, 1, <<>>), <<>>)

\* ---- the calls explored
\* audio lengths above chunk + overlap (ms): two chunks and three chunks
ChunkedAudioLengths == { 520000, 950000 }

\* in-chunk instants at which a word may start or end
ChunkInstants == { 0, 20000, 440000, 450000, 470000 }

TextOfLines(ns) == [l \in 1..Len(ns) |-> [k \in 1..ns[l] |-> <<l, k>>]]
ChunkedTexts == { TextOfLines(ns) : ns \in { <<1, 1>>, <<2, 1>>, <<1, 0, 1, 1>>, <<1>> } }

\* what _align_single may return for a chunk of the given length and words:
\* a span inside the chunk for each word of a subsequence of its words
RECURSIVE ChunkAlignments(_, _)
ChunkAlignments(ws, len) ==
    IF ws = <<>> THEN { <<>> }
    ELSE LET rest == ChunkAlignments(Tail(ws), len)
             inside == { t \in ChunkInstants : t <= len }
         IN  rest \cup
             { <<TimedWord(Head(ws), span[1], span[2])>> \o r :
                 span \in { p \in inside \X inside : p[1] <= p[2] }, r \in rest }

ChunkLength(total, i) ==
    Min(ChunkStarts(total)[i] + CHUNK_DURATION_MS, total) - ChunkStarts(total)[i]

\* one result per chunk, chunks i..num_chunks
RECURSIVE ChunkResults(_, _, _)
ChunkResults(total, text_chunks, i) ==
    IF i > Len(text_chunks) THEN { <<>> }
    ELSE { <<r>> \o rest :
             r \in ChunkAlignments(ChunkTextWords(text_chunks[i]), ChunkLength(total, i)),
             rest \in ChunkResults(total, text_chunks, i + 1) }

ChunkedCalls ==
    UNION { { [total |-> total, text |-> text, results |-> rs] :
                rs \in ChunkResults(total,
                          SplitTextForChunks(text, Len(ChunkStarts(total))), 1) } :
            total \in ChunkedAudioLengths, text \in ChunkedTexts }

ChunkedInit ==
    /\ chunk_words \in ChunkedCalls
    /\ merged_words = NoResult
    /\ input_text = <<>> /\ g2p_out = NoResult
    /\ NoJob /\ NoPerLine /\ NoMap /\ NoSyllable /\ NoProsody
    /\ NoCall /\ NoWorker

CallAlignChunked ==
    /\ ~merged_words.called
    /\ merged_words' = [called |-> TRUE,
                        words |-> AlignChunked(chunk_words.total, chunk_words.text,
                                               chunk_words.results)]
    /\ UNCHANGED << chunk_words, g2pVars, jobVars, perLineVars, mapVars,
                    syllableVars, prosodyVars, callVars, workerVars >>

ChunkedNext == CallAlignChunked

SpecChunked == ChunkedInit /\ [][ChunkedNext]_vars

\* ------------------------------------------------------------------------
\* KoreanG2P._syllable_to_phonemes on every precomposed syllable
\* ------------------------------------------------------------------------
\* every Hangul syllable, and characters around and outside the block
SyllableInputs == (HANGUL_BASE..HANGUL_LAST) \cup { 97, 12619, 44031, 55204 }

SyllableInit ==
    /\ syllable \in SyllableInputs
    /\ syllable_phonemes = NoResult
    /\ input_text = <<>> /\ g2p_out = NoResult
    /\ NoJob /\ NoPerLine /\ NoMap /\ NoChunk /\ NoProsody
    /\ NoCall /\ NoWorker

CallSyllableToPhonemes ==
    /\ ~syllable_phonemes.called
    /\ syllable_phonemes' = [called |-> TRUE, phonemes |-> SyllableToPhonemes(syllable)]
    /\ UNCHANGED << syllable, g2pVars, jobVars, perLineVars, mapVars, chunkVars,
                    prosodyVars, callVars, workerVars >>

SyllableNext == CallSyllableToPhonemes

SpecSyllable == SyllableInit /\ [][SyllableNext]_vars

\* ------------------------------------------------------------------------
\* The prosody stages: _add_energy_to_words, _add_pitch_to_words,
\* _add_vad_to_words, called in this order by extract_lyrics
\* ------------------------------------------------------------------------
\* Times are milliseconds; energy and voiced are thousandths; the RMS
\* values are multiples of 1e-6, so that the 1e-8 added to the local range
\* is one hundredth of the unit.

\* librosa.feature.rms(hop_length=512) at sr=16000: one frame every 32 ms
HOP_MS == 32
\* "window_size_frames = int(30 * sr / 512)"
WINDOW_SIZE_FRAMES == 937
\* "n_points = min(6, len(word_rms_slice))"
MAX_CURVE_POINTS == 6
\* "word['energy'] = 0.5"
DEFAULT_ENERGY == 500
\* "word['voiced'] = 0.5" of the except branch of _add_vad_to_words
DEFAULT_VOICED == 500
\* "time = np.arange(len(pitch)) * 320 / sr": one pitch frame every 20 ms
PITCH_HOP_MS == 20

\* the vocals: NumBlocks blocks of BlockFrames RMS frames, the RMS value
\* constant inside a block
NumBlocks == 4
BlockFrames == 500
Levels == { 0, 1, 2 }
RmsTracks == [1..NumBlocks -> Levels]

\* len(rms)
RmsLen == NumBlocks * BlockFrames
\* the length of the vocals
VocalsMs == RmsLen * HOP_MS

\* np.searchsorted(times, t) for times = 0, hop, 2 * hop, ... : the first
\* frame at or after t, len(times) when there is none
SearchSorted(t, hop, len) == Min((t + hop - 1) \div hop, len)

\* the number of frames of block k among the frames a .. b-1
FramesIn(k, a, b) ==
    Max(0, Min(b, k * BlockFrames) - Max(a, (k - 1) * BlockFrames))

\* rms[a:b].sum(), .min() and .max() for a < b
SliceSum(rms, a, b) == SumSeq([k \in 1..NumBlocks |-> rms[k] * FramesIn(k, a, b)])
SliceMin(rms, a, b) ==
    LET in == { k \in 1..NumBlocks : FramesIn(k, a, b) > 0 }
    IN  CHOOSE v \in { rms[k] : k \in in } : \A k \in in : v <= rms[k]
SliceMax(rms, a, b) ==
    LET in == { k \in 1..NumBlocks : FramesIn(k, a, b) > 0 }
    IN  CHOOSE v \in { rms[k] : k \in in } : \A k \in in : v >= rms[k]

\* round((num / den - local_min) / (local_max - local_min + 1e-8), 3), with
\* num the sum of den RMS values less den times local_min
NormalizedEnergy(num, den, local_range) ==
    Round3(1000 * 100 * num, den * (100 * local_range + 1))

\* np.linspace(0, n - 1, n_points, dtype=int)
Linspace(n, n_points) ==
    [j \in 1..n_points |-> ((j - 1) * (n - 1)) \div (n_points - 1)]

\* the body of the loop over the words of _add_energy_to_words
WordEnergy(rms, word) ==
    LET start_idx == SearchSorted(word.start_time, HOP_MS, RmsLen)
        end_idx == SearchSorted(word.end_time, HOP_MS, RmsLen)
    IN  IF start_idx < end_idx /\ end_idx <= RmsLen
        THEN LET center == (start_idx + end_idx) \div 2
                 win_start == Max(0, center - WINDOW_SIZE_FRAMES \div 2)
                 win_end == Min(RmsLen, center + WINDOW_SIZE_FRAMES \div 2)
                 local_min == SliceMin(rms, win_start, win_end)
                 local_max == SliceMax(rms, win_start, win_end)
                 n == end_idx - start_idx
                 energy == NormalizedEnergy(
                               SliceSum(rms, start_idx, end_idx) - local_min * n,
                               n, local_max - local_min)
                 n_points == Min(MAX_CURVE_POINTS, n)
                 indices == Linspace(n, n_points)
             IN  [energy |-> energy,
                  energy_curve |->
                      IF n > 1
                      THEN [j \in 1..n_points |->
                               NormalizedEnergy(
                                   rms[((start_idx + indices[j]) \div BlockFrames) + 1]
                                       - local_min,
                                   1, local_max - local_min)]
                      ELSE << energy >>]
        ELSE [energy |-> DEFAULT_ENERGY, energy_curve |-> << DEFAULT_ENERGY >>]

\* the defaults of the except branches
EnergyDefaults == [energy |-> DEFAULT_ENERGY, energy_curve |-> << DEFAULT_ENERGY >>]
PitchDefaults == [pitch |-> 0, note |-> "", midi |-> 0]
VadDefaults == [voiced |-> DEFAULT_VOICED]

\* the pitch track: 0 Hz (unvoiced) or 440 Hz throughout the vocals
PitchTracks == { 0, 440 }
\* len(pitch): one frame every 20 ms of the vocals
PitchLen == VocalsMs \div PITCH_HOP_MS

\* the body of the loop over the words of _add_pitch_to_words: the mean of
\* the voiced frames of the word, freq_to_note and freq_to_midi of 440 Hz
WordPitch(f0, word) ==
    LET start_idx == SearchSorted(word.start_time, PITCH_HOP_MS, PitchLen)
        end_idx == SearchSorted(word.end_time, PITCH_HOP_MS, PitchLen)
    IN  IF start_idx < end_idx /\ end_idx <= PitchLen /\ f0 > 0
        THEN [pitch |-> f0, note |-> "A4", midi |-> 69]
        ELSE PitchDefaults

\* the speech ranges get_speech_timestamps may report
SpeechRanges == { <<>>, << <<0, 1500>> >>, << <<0, 1500>>, <<1800, VocalsMs>> >> }

\* the body of the loop over the words of _add_vad_to_words
WordVad(speech_ranges, word) ==
    LET start == word.start_time
        end == word.end_time
        word_dur == end - start
        speech_overlap ==
            SumSeq([k \in 1..Len(speech_ranges) |->
                        Max(0, Min(end, speech_ranges[k][2])
                               - Max(start, speech_ranges[k][1]))])
    IN  IF word_dur <= 0 THEN [voiced |-> 0]
        ELSE [voiced |-> Min(1000, Round3(1000 * speech_overlap, word_dur))]

\* every word of the lines
WordsOf(segs) ==
    UNION { { segs[i].words[j] : j \in 1..Len(segs[i].words) } : i \in 1..Len(segs) }

\* "for segment in segments: for word in segment.get('words', [])": the
\* new keys are written into every word
UpdateWords(segs, values) ==
    [i \in 1..Len(segs) |->
        [segs[i] EXCEPT !.words =
            [j \in 1..Len(segs[i].words) |-> values[segs[i].words[j]] @@ segs[i].words[j]]]]

\* the word spans of the lines handed to the stages: the whole vocals (a
\* word longer than the 30 s window), spans of one, two, three and 31 RMS
\* frames, an empty span, a span that starts before the end of the vocals
\* and ends after it, and a span after the end of the vocals
WordSpans ==
    { <<0, VocalsMs>>, <<0, 32>>, <<0, 64>>, <<0, 96>>, <<1000, 2000>>,
      <<500, 500>>, <<VocalsMs - 320, VocalsMs + 1000>>,
      <<VocalsMs + 1000, VocalsMs + 2000>> }
SpanWord(span) == [start_time |-> span[1], end_time |-> span[2]]

\* the lines: one line of one or two words, or two lines of one word each
SegmentLists ==
    { << [words |-> << SpanWord(a) >>] >> : a \in WordSpans }
    \cup { << [words |-> << SpanWord(a), SpanWord(b) >>] >> :
             a \in WordSpans, b \in WordSpans }
    \cup { << [words |-> << SpanWord(a) >>], [words |-> << SpanWord(b) >>] >> :
             a \in WordSpans, b \in { <<0, 64>>, <<1000, 2000>> } }

ProsodyInit ==
    /\ rms_levels \in RmsTracks
    /\ prosody_segments \in SegmentLists
    /\ stage = "energy"
    /\ failed_stages = {}
    /\ input_text = <<>> /\ g2p_out = NoResult
    /\ NoJob /\ NoPerLine /\ NoMap /\ NoChunk /\ NoSyllable
    /\ NoCall /\ NoWorker

\* _add_energy_to_words, the try block
AddEnergyToWords ==
    /\ stage = "energy"
    /\ LET values == [word \in WordsOf(prosody_segments) |->
                              WordEnergy(rms_levels, word)]
       IN  prosody_segments' = UpdateWords(prosody_segments, values)
    /\ stage' = "pitch"
    /\ UNCHANGED << rms_levels, failed_stages >>
    /\ UNCHANGED << g2pVars, jobVars, perLineVars, mapVars, chunkVars, syllableVars,
                    callVars, workerVars >>

\* _add_energy_to_words, the except branch
AddEnergyFails ==
    /\ stage = "energy"
    /\ LET values == [word \in WordsOf(prosody_segments) |->
                              EnergyDefaults]
       IN  prosody_segments' = UpdateWords(prosody_segments, values)
    /\ failed_stages' = failed_stages \cup { "energy" }
    /\ stage' = "pitch"
    /\ UNCHANGED << rms_levels >>
    /\ UNCHANGED << g2pVars, jobVars, perLineVars, mapVars, chunkVars, syllableVars,
                    callVars, workerVars >>

\* _add_pitch_to_words, the try block
AddPitchToWords ==
    /\ stage = "pitch"
    /\ \E f0 \in PitchTracks :
          LET values == [word \in WordsOf(prosody_segments) |->
                              WordPitch(f0, word)]
          IN  prosody_segments' = UpdateWords(prosody_segments, values)
    /\ stage' = "vad"
    /\ UNCHANGED << rms_levels, failed_stages >>
    /\ UNCHANGED << g2pVars, jobVars, perLineVars, mapVars, chunkVars, syllableVars,
                    callVars, workerVars >>

\* _add_pitch_to_words, the except branch
AddPitchFails ==
    /\ stage = "pitch"
    /\ LET values == [word \in WordsOf(prosody_segments) |->
                              PitchDefaults]
       IN  prosody_segments' = UpdateWords(prosody_segments, values)
    /\ failed_stages' = failed_stages \cup { "pitch" }
    /\ stage' = "vad"
    /\ UNCHANGED << rms_levels >>
    /\ UNCHANGED << g2pVars, jobVars, perLineVars, mapVars, chunkVars, syllableVars,
                    callVars, workerVars >>

\* _add_vad_to_words, the try block
AddVadToWords ==
    /\ stage = "vad"
    /\ \E speech_ranges \in SpeechRanges :
          LET values == [word \in WordsOf(prosody_segments) |->
                              WordVad(speech_ranges, word)]
          IN  prosody_segments' = UpdateWords(prosody_segments, values)
    /\ stage' = "done"
    /\ UNCHANGED << rms_levels, failed_stages >>
    /\ UNCHANGED << g2pVars, jobVars, perLineVars, mapVars, chunkVars, syllableVars,
                    callVars, workerVars >>

\* _add_vad_to_words, the except branch
AddVadFails ==
    /\ stage = "vad"
    /\ LET values == [word \in WordsOf(prosody_segments) |->
                              VadDefaults]
       IN  prosody_segments' = UpdateWords(prosody_segments, values)
    /\ failed_stages' = failed_stages \cup { "vad" }
    /\ stage' = "done"
    /\ UNCHANGED << rms_levels >>
    /\ UNCHANGED << g2pVars, jobVars, perLineVars, mapVars, chunkVars, syllableVars,
                    callVars, workerVars >>

ProsodyNext ==
    \/ AddEnergyToWords
    \/ AddEnergyFails
    \/ AddPitchToWords
    \/ AddPitchFails
    \/ AddVadToWords
    \/ AddVadFails

SpecProsody == ProsodyInit /\ [][ProsodyNext]_vars

\* ------------------------------------------------------------------------
\* LyricsProcessor._group_words_into_lines on the word list of an aligner
\* that skipped words
\* ------------------------------------------------------------------------
\* The lyrics: lines of words (a word is written as its length). The
\* aligner's list holds, in the order of lyrics_text.split(), one entry
\* for each word that got a phoneme span; widx says which word of
\* lyrics_text.split() the entry was built for (its "text" in the source).
GroupTexts ==
    { << Line(<<2, 1>>, FALSE, TRUE) >>,
      << Line(<<2>>, FALSE, TRUE), Line(<<1, 3>>, FALSE, TRUE) >>,
      << Line(<<1>>, FALSE, TRUE), Blank, Line(<<2>>, FALSE, TRUE) >> }

\* the entries of _align_chunk for the words kept, in word order
RECURSIVE AlignerEntries(_, _)
AlignerEntries(n, kept) ==
    IF n = 0 THEN { <<>> }
    ELSE LET before == AlignerEntries(n - 1, kept)
         IN  IF (n - 1) \in kept
             THEN { Append(ws, [widx |-> n - 1, start_time |-> w.start_time,
                                end_time |-> w.end_time]) :
                      ws \in before, w \in AlignedWords }
             ELSE before

GroupCalls ==
    UNION { UNION { { [fn |-> "_group_words_into_lines", all_words |-> aw,
                       lyrics_text |-> text] : aw \in AlignerEntries(Len(AllLyricWords(text)), kept) } :
                    kept \in SUBSET (0..(Len(AllLyricWords(text)) - 1)) } :
            text \in GroupTexts }

GroupInit ==
    /\ call_args \in GroupCalls
    /\ call_result = NoResult
    /\ worker = [pc |-> "idle"]
    /\ input_text = <<>> /\ g2p_out = NoResult
    /\ NoJob /\ NoPerLine /\ NoMap /\ NoChunk /\ NoSyllable /\ NoProsody

CallGroupWordsIntoLines ==
    /\ ~call_result.called
    /\ call_result' = [called |-> TRUE,
                       lines |-> GroupWordsIntoLines(call_args.all_words,
                                                     call_args.lyrics_text)]
    /\ UNCHANGED << call_args, worker, g2pVars, jobVars, perLineVars, mapVars,
                    chunkVars, syllableVars, prosodyVars >>

GroupNext == CallGroupWordsIntoLines

SpecGroup == GroupInit /\ [][GroupNext]_vars

\* ------------------------------------------------------------------------
\* SOFAAligner._align_chunk: from the engine's phoneme entries to words
\* ------------------------------------------------------------------------
\* Engine times are tenths of a millisecond; word times are milliseconds
\* ("round(float(...), 3)").
RoundMs(t) == Round3(t, 10)

\* the vocabulary of _get_ph_to_idx: "x" is a phoneme the model does not know
Vocabulary == { "SP", "a", "b" }

\* "for ph, widx in zip(ph_seq, ph_idx_to_word_idx): if ph in ph_to_idx"
RECURSIVE FilterValid(_, _)
FilterValid(s, ph_seq) ==
    IF s = <<>> THEN <<>>
    ELSE (IF ph_seq[Len(ph_seq) - Len(s) + 1] \in Vocabulary THEN << Head(s) >> ELSE <<>>)
         \o FilterValid(Tail(s), ph_seq)

\* the else branch, "match by phoneme string identity in order": the input
\* position (from 0) each entry is attributed to, None for an entry the
\* loop did not attribute; ph_cursor is the position the search starts at
RECURSIVE FirstAtOrAfter(_, _, _)
FirstAtOrAfter(valid_ph_seq, ph_cursor, ts_ph) ==
    IF ph_cursor < Len(valid_ph_seq) /\ valid_ph_seq[ph_cursor + 1] # ts_ph
    THEN FirstAtOrAfter(valid_ph_seq, ph_cursor + 1, ts_ph)
    ELSE ph_cursor

NotAttributed == -1
RECURSIVE MatchInOrder(_, _, _)
MatchInOrder(valid_ph_seq, phoneme_timestamps, ph_cursor) ==
    IF phoneme_timestamps = <<>> THEN <<>>
    ELSE LET found == FirstAtOrAfter(valid_ph_seq, ph_cursor, Head(phoneme_timestamps).ph)
         IN  IF found >= Len(valid_ph_seq)
             THEN [k \in 1..Len(phoneme_timestamps) |-> NotAttributed]
             ELSE << found >> \o MatchInOrder(valid_ph_seq, Tail(phoneme_timestamps), found + 1)

\* the position of each entry: its own index when the lengths agree
Attribution(valid_ph_seq, phoneme_timestamps) ==
    IF Len(phoneme_timestamps) = Len(valid_ph_seq)
    THEN [k \in 1..Len(phoneme_timestamps) |-> k - 1]
    ELSE MatchInOrder(valid_ph_seq, phoneme_timestamps, 0)

\* word_starts / word_ends of word widx, and the words built in order
EntriesOfWord(widx, valid_ph_word_map, phoneme_timestamps, attributed) ==
    { k \in 1..Len(phoneme_timestamps) :
        /\ attributed[k] # NotAttributed
        /\ valid_ph_word_map[attributed[k] + 1] = widx }

\* (mutant) a word takes the span of its first entry
WordSpanOfFirstEntry(of, phoneme_timestamps) ==
    LET first == CHOOSE k \in of : \A j \in of : k <= j
    IN  [start |-> phoneme_timestamps[first].start,
         end |-> phoneme_timestamps[first].end]

\* "if widx not in word_starts or start < word_starts[widx]" and
\* "if widx not in word_ends or end > word_ends[widx]" over the entries of
\* one word
WordSpan(of, phoneme_timestamps) ==
    LET first == CHOOSE k \in of : \A j \in of :
                     phoneme_timestamps[k].start <= phoneme_timestamps[j].start
        last == CHOOSE k \in of : \A j \in of :
                    phoneme_timestamps[k].end >= phoneme_timestamps[j].end
    IN  [start |-> phoneme_timestamps[first].start,
         end |-> phoneme_timestamps[last].end]

\* "for widx, word_text in enumerate(word_seq)"
RECURSIVE BuildWords(_, _, _, _, _)
BuildWords(widx, num_words, valid_ph_word_map, phoneme_timestamps, attributed) ==
    IF widx >= num_words THEN <<>>
    ELSE LET of == EntriesOfWord(widx, valid_ph_word_map, phoneme_timestamps, attributed)
         IN  (IF of # {}
              THEN << [widx |-> widx,
                       start_time |-> RoundMs(WordSpan(of, phoneme_timestamps).start),
                       end_time |-> RoundMs(WordSpan(of, phoneme_timestamps).end)] >>
              ELSE <<>>)
             \o BuildWords(widx + 1, num_words, valid_ph_word_map, phoneme_timestamps,
                           attributed)

WordsOfChunk(num_words, valid_ph_word_map, phoneme_timestamps, attributed) ==
    BuildWords(0, num_words, valid_ph_word_map, phoneme_timestamps, attributed)

MIN_VALID_PHONEMES == 2
AlignChunk(ph_seq, num_words, ph_idx_to_word_idx, phoneme_timestamps) ==
    LET valid_ph_seq == FilterValid(ph_seq, ph_seq)
        valid_ph_word_map == FilterValid(ph_idx_to_word_idx, ph_seq)
    IN  IF Len(valid_ph_seq) < MIN_VALID_PHONEMES \/ phoneme_timestamps = <<>>
        THEN [words |-> <<>>, attributed |-> <<>>, valid_ph_seq |-> valid_ph_seq,
              valid_ph_word_map |-> valid_ph_word_map]
        ELSE LET attributed == Attribution(valid_ph_seq, phoneme_timestamps)
             IN  [words |-> WordsOfChunk(num_words, valid_ph_word_map,
                                         phoneme_timestamps, attributed),
                  attributed |-> attributed,
                  valid_ph_seq |-> valid_ph_seq,
                  valid_ph_word_map |-> valid_ph_word_map]

\* the phoneme sequences of _g2p given to _align_chunk: one word "ab", two
\* words "a b", "ax b" with the unknown phoneme, "x a" whose first word has
\* no known phoneme, "ab x" whose second word has none
ChunkPhonemes ==
    { [ph_seq |-> << "SP", "a", "b", "SP" >>, num_words |-> 1,
       ph_idx_to_word_idx |-> << -1, 0, 0, -1 >>],
      [ph_seq |-> << "SP", "a", "SP", "b", "SP" >>, num_words |-> 2,
       ph_idx_to_word_idx |-> << -1, 0, -1, 1, -1 >>],
      [ph_seq |-> << "SP", "a", "x", "SP", "b", "SP" >>, num_words |-> 2,
       ph_idx_to_word_idx |-> << -1, 0, 0, -1, 1, -1 >>],
      [ph_seq |-> << "SP", "x", "SP", "a", "SP" >>, num_words |-> 2,
       ph_idx_to_word_idx |-> << -1, 0, -1, 1, -1 >>],
      [ph_seq |-> << "SP", "a", "b", "SP", "x", "SP" >>, num_words |-> 2,
       ph_idx_to_word_idx |-> << -1, 0, 0, -1, 1, -1 >>] }

\* what engine.infer may return: one entry per input phoneme, or a list of
\* another length, of entries in any order
EntrySpans == { <<0, 4004>>, <<4004, 8016>>, <<8016, 12000>> }
Entry(ph, span) == [ph |-> ph, start |-> span[1], end |-> span[2]]
MaxRaggedLen == 3
RECURSIVE OneToOneEntries(_)
OneToOneEntries(valid_ph_seq) ==
    IF valid_ph_seq = <<>> THEN { <<>> }
    ELSE { << Entry(Head(valid_ph_seq), span) >> \o rest :
             span \in EntrySpans, rest \in OneToOneEntries(Tail(valid_ph_seq)) }
RECURSIVE RaggedEntries(_)
RaggedEntries(n) ==
    IF n = 0 THEN { <<>> }
    ELSE { <<>> } \cup
         { << Entry(ph, span) >> \o rest :
             ph \in Vocabulary, span \in EntrySpans, rest \in RaggedEntries(n - 1) }
InferResults(ph_seq) ==
    OneToOneEntries(FilterValid(ph_seq, ph_seq))
    \cup { ts \in RaggedEntries(MaxRaggedLen) :
             Len(ts) # Len(FilterValid(ph_seq, ph_seq)) }

AlignChunkCalls ==
    UNION { { [fn |-> "_align_chunk", ph_seq |-> c.ph_seq, num_words |-> c.num_words,
               ph_idx_to_word_idx |-> c.ph_idx_to_word_idx,
               phoneme_timestamps |-> ts] : ts \in InferResults(c.ph_seq) } :
            c \in ChunkPhonemes }

AlignChunkInit ==
    /\ call_args \in AlignChunkCalls
    /\ call_result = NoResult
    /\ worker = [pc |-> "idle"]
    /\ input_text = <<>> /\ g2p_out = NoResult
    /\ NoJob /\ NoPerLine /\ NoMap /\ NoChunk /\ NoSyllable /\ NoProsody

CallAlignChunk ==
    /\ ~call_result.called
    /\ call_result' = [called |-> TRUE] @@
                      AlignChunk(call_args.ph_seq, call_args.num_words,
                                 call_args.ph_idx_to_word_idx,
                                 call_args.phoneme_timestamps)
    /\ UNCHANGED << call_args, worker, g2pVars, jobVars, perLineVars, mapVars,
                    chunkVars, syllableVars, prosodyVars >>

AlignChunkNext == CallAlignChunk

SpecAlignChunk == AlignChunkInit /\ [][AlignChunkNext]_vars

\* ------------------------------------------------------------------------
\* SOFAAligner._split_text_for_chunks on bounded texts
\* ------------------------------------------------------------------------
\* texts of up to MaxSplitLines lines, each blank or of one word, split for
\* 1 .. MaxSplitChunks chunks
MaxSplitLines == 6
MaxSplitChunks == 4
SplitTexts ==
    { TextOfLines(ns) : ns \in UNION { [1..m -> 0..1] : m \in 0..MaxSplitLines } }

SplitCalls ==
    { [fn |-> "_split_text_for_chunks", text |-> text, num_chunks |-> n] :
        text \in SplitTexts, n \in 1..MaxSplitChunks }

SplitInit ==
    /\ call_args \in SplitCalls
    /\ call_result = NoResult
    /\ worker = [pc |-> "idle"]
    /\ input_text = <<>> /\ g2p_out = NoResult
    /\ NoJob /\ NoPerLine /\ NoMap /\ NoChunk /\ NoSyllable /\ NoProsody

CallSplitTextForChunks ==
    /\ ~call_result.called
    /\ call_result' = [called |-> TRUE,
                       chunks |-> SplitTextForChunks(call_args.text, call_args.num_chunks)]
    /\ UNCHANGED << call_args, worker, g2pVars, jobVars, perLineVars, mapVars,
                    chunkVars, syllableVars, prosodyVars >>

SplitNext == CallSplitTextForChunks

SpecSplit == SplitInit /\ [][SplitNext]_vars

\* ------------------------------------------------------------------------
\* SOFAAligner._detect_and_trim_intro
\* ------------------------------------------------------------------------
\* The waveform is given by the RMS of its frames of 2048 samples, as runs
\* of frames of one level: 0 (silence), 1 (instrumental bleed), 20
\* (singing). Times are counted in samples at 44100 Hz, which makes
\* onset_frame * frame_sec and the returned offset exact.
HOP_SAMPLES == 2048
SOFA_SAMPLE_RATE == 44100
MIN_INTRO_SEC == 8
PREROLL_SEC == 2
SUSTAINED_FRAMES == 15

\* "top20_start = int(0.80 * len(rms_sorted))"
Top20Start(n) == (80 * n) \div 100

\* rms_sorted[j] (j from 0): the least value with more than j frames at or
\* below it
SortedAt(rms, j) ==
    LET values == { rms[i] : i \in 1..Len(rms) }
        reached == { v \in values : Cardinality({ i \in 1..Len(rms) : rms[i] <= v }) > j }
    IN  CHOOSE v \in reached : \A u \in reached : v <= u

\* twice np.median(rms_sorted[top20_start:])
TwiceSingingLevel(rms) ==
    LET n == Len(rms)
        top20_start == Top20Start(n)
        m == n - top20_start
    IN  IF m % 2 = 1 THEN 2 * SortedAt(rms, top20_start + (m - 1) \div 2)
        ELSE SortedAt(rms, top20_start + m \div 2 - 1)
             + SortedAt(rms, top20_start + m \div 2)

\* "rms[i] > threshold" with threshold = singing_level * 0.08
AboveThreshold(level, twice_singing_level) == 200 * level > 8 * twice_singing_level

\* One pass of the loop body at frame i (from 0): consecutive, onset_frame
\* and whether the loop has been left with break
LoopStep(state, above, i) ==
    IF above
    THEN IF state.consecutive + 1 >= SUSTAINED_FRAMES
         THEN [consecutive |-> state.consecutive + 1,
               onset_frame |-> i - SUSTAINED_FRAMES + 1, broke |-> TRUE]
         ELSE [state EXCEPT !.consecutive = @ + 1]
    ELSE [state EXCEPT !.consecutive = 0]

\* "for i in range(num_frames)": the frames i .. stop-1, and the whole loop
\* taken ScanBlock frames at a time
ScanBlock == 32
RECURSIVE ScanFrames(_, _, _, _, _)
ScanFrames(rms, twice_singing_level, i, stop, state) ==
    IF i >= stop \/ state.broke THEN state
    ELSE ScanFrames(rms, twice_singing_level, i + 1, stop,
                    LoopStep(state, AboveThreshold(rms[i + 1], twice_singing_level), i))
RECURSIVE ScanBlocks(_, _, _, _)
ScanBlocks(rms, twice_singing_level, i, state) ==
    IF i >= Len(rms) \/ state.broke THEN state
    ELSE ScanBlocks(rms, twice_singing_level, i + ScanBlock,
                    ScanFrames(rms, twice_singing_level, i,
                               Min(Len(rms), i + ScanBlock), state))

\* onset_frame after the loop: 0 when no run of sustained_frames was found
OnsetLoop(rms, twice_singing_level, i, consecutive) ==
    ScanBlocks(rms, twice_singing_level, i,
               [consecutive |-> consecutive, onset_frame |-> 0, broke |-> FALSE]).onset_frame

\* (mutant) the preroll is not kept
DetectAndTrimIntroNoPreroll(rms) ==
    IF Len(rms) < SUSTAINED_FRAMES * 2 THEN 0
    ELSE LET onset_frame == OnsetLoop(rms, TwiceSingingLevel(rms), 0, 0)
             onset == onset_frame * HOP_SAMPLES
         IN  IF onset < MIN_INTRO_SEC * SOFA_SAMPLE_RATE THEN 0 ELSE onset

\* the offset returned, in samples (seconds times 44100)
DetectAndTrimIntro(rms) ==
    IF Len(rms) < SUSTAINED_FRAMES * 2 THEN 0
    ELSE LET onset_frame == OnsetLoop(rms, TwiceSingingLevel(rms), 0, 0)
             onset == onset_frame * HOP_SAMPLES
         IN  IF onset < MIN_INTRO_SEC * SOFA_SAMPLE_RATE THEN 0
             ELSE Max(0, onset - PREROLL_SEC * SOFA_SAMPLE_RATE)

\* the waveforms: up to MaxRuns runs, each of 14, 15, 158 or 173 frames
MaxRuns == 3
RunLengths == { 14, 15, 158, 173 }
FrameLevels == { 0, 1, 20 }
RECURSIVE FramesOfRuns(_)
FramesOfRuns(runs) ==
    IF runs = <<>> THEN <<>>
    ELSE [i \in 1..Head(runs)[2] |-> Head(runs)[1]] \o FramesOfRuns(Tail(runs))
Waveforms ==
    { FramesOfRuns(runs) :
        runs \in UNION { [1..n -> FrameLevels \X RunLengths] : n \in 1..MaxRuns } }

TrimInit ==
    /\ call_args \in { [fn |-> "_detect_and_trim_intro", rms |-> rms] : rms \in Waveforms }
    /\ call_result = NoResult
    /\ worker = [pc |-> "idle"]
    /\ input_text = <<>> /\ g2p_out = NoResult
    /\ NoJob /\ NoPerLine /\ NoMap /\ NoChunk /\ NoSyllable /\ NoProsody

CallDetectAndTrimIntro ==
    /\ ~call_result.called
    /\ call_result' = [called |-> TRUE, trim |-> DetectAndTrimIntro(call_args.rms)]
    /\ UNCHANGED << call_args, worker, g2pVars, jobVars, perLineVars, mapVars,
                    chunkVars, syllableVars, prosodyVars >>

TrimNext == CallDetectAndTrimIntro

SpecTrim == TrimInit /\ [][TrimNext]_vars

\* ------------------------------------------------------------------------
\* AIWorker.process_audio  (worker.py), called by RabbitMQService.consume
\* ------------------------------------------------------------------------
\* worker.published is the list of the statuses _update_status has
\* published for the message; the message is given by its source, its
\* tasks and whether it carries a videoId and an audio_s3_key.
MessageTasks == { "download", "separate", "lyrics", "pitch" }
Messages ==
    { [source |-> s, tasks |-> t, video_id |-> v, audio_s3_key |-> k] :
        s \in { "s3", "youtube" }, t \in SUBSET MessageTasks,
        v \in BOOLEAN, k \in BOOLEAN }

\* _update_status(song_id, status, ...): the status is published
Published(w, status) == [w EXCEPT !.published = Append(@, status)]

WorkerInit ==
    /\ worker \in { [pc |-> "received", message |-> m, tasks |-> m.tasks,
                     local_audio_path |-> FALSE, published |-> <<>>,
                     delivery |-> "none"] : m \in Messages }
    /\ input_text = <<>> /\ g2p_out = NoResult
    /\ NoJob /\ NoPerLine /\ NoMap /\ NoChunk /\ NoSyllable /\ NoProsody /\ NoCall

WorkerUnchanged ==
    UNCHANGED << g2pVars, jobVars, perLineVars, mapVars, chunkVars, syllableVars,
                 prosodyVars, callVars >>

\* lines 79-91: the message is read and "processing" is published
ReceiveMessage ==
    /\ worker.pc = "received"
    /\ worker' = [Published(worker, "processing") EXCEPT !.pc = "download"]
    /\ WorkerUnchanged

\* lines 95-103: the audio is fetched from YouTube; a download that gives
\* no file publishes "failed" and returns
DownloadFromYoutube ==
    /\ worker.pc = "download"
    /\ worker.message.source = "youtube" /\ "download" \in worker.tasks
    /\ IF worker.message.video_id
       THEN \E downloaded \in BOOLEAN :
              worker' =
                IF downloaded
                THEN [Published(worker, "processing") EXCEPT
                        !.local_audio_path = TRUE,
                        !.tasks = @ \ { "download" },
                        !.pc = "check_audio"]
                ELSE [Published(Published(worker, "processing"), "failed") EXCEPT
                        !.pc = "returned"]
       ELSE worker' = [worker EXCEPT !.pc = "check_audio"]
    /\ WorkerUnchanged

\* lines 104-107: the audio is fetched from S3; s3_service.download_file
\* raises ClientError when the download fails, outside the try statement
DownloadFromS3 ==
    /\ worker.pc = "download"
    /\ ~(worker.message.source = "youtube" /\ "download" \in worker.tasks)
    /\ IF worker.message.audio_s3_key
       THEN \E downloaded \in BOOLEAN :
              worker' = IF downloaded
                        THEN [worker EXCEPT !.local_audio_path = TRUE,
                                            !.pc = "check_audio"]
                        ELSE [worker EXCEPT !.pc = "raised"]
       ELSE worker' = [worker EXCEPT !.pc = "check_audio"]
    /\ WorkerUnchanged

\* lines 109-111
CheckAudioSource ==
    /\ worker.pc = "check_audio"
    /\ worker' = IF worker.local_audio_path
                 THEN [worker EXCEPT !.pc = "separate"]
                 ELSE [Published(worker, "failed") EXCEPT !.pc = "returned"]
    /\ WorkerUnchanged

\* one stage of the try block: when the task is asked for, "processing" is
\* published, the progress callback may publish "processing" again, and the
\* processor returns or raises
RunStage(task, next_pc) ==
    IF task \in worker.tasks
    THEN \E progress \in BOOLEAN, raised \in BOOLEAN :
           LET started == Published(worker, "processing")
               reported == IF progress THEN Published(started, "processing")
                           ELSE started
           IN  worker' = [reported EXCEPT
                            !.pc = IF raised THEN "except" ELSE next_pc]
    ELSE worker' = [worker EXCEPT !.pc = next_pc]

\* lines 116-126
Separate ==
    /\ worker.pc = "separate"
    /\ RunStage("separate", "lyrics")
    /\ WorkerUnchanged

\* lines 128-147
ExtractLyrics ==
    /\ worker.pc = "lyrics"
    /\ RunStage("lyrics", "pitch")
    /\ WorkerUnchanged

\* lines 149-164
AnalyzePitch ==
    /\ worker.pc = "pitch"
    /\ RunStage("pitch", "complete")
    /\ WorkerUnchanged

\* lines 166-168: "completed" is published; _send_callback_to_backend
\* catches what it raises
Complete ==
    /\ worker.pc = "complete"
    /\ worker' = [Published(worker, "completed") EXCEPT !.pc = "finally"]
    /\ WorkerUnchanged

\* lines 170-173: except Exception
HandleException ==
    /\ worker.pc = "except"
    /\ worker' = [Published(worker, "failed") EXCEPT !.pc = "finally"]
    /\ WorkerUnchanged

\* lines 175-176: _cleanup_temp_files returns, or raises from os.remove or
\* os.rmdir of the song's directory
CleanupTempFiles ==
    /\ worker.pc = "finally"
    /\ \E raised \in BOOLEAN :
         worker' = [worker EXCEPT !.pc = IF raised THEN "raised" ELSE "returned"]
    /\ WorkerUnchanged

\* rabbitmq_service.py 67-74: on_message acknowledges the message when the
\* callback returns and rejects it when the callback raises
OnMessage ==
    /\ worker.pc \in { "returned", "raised" }
    /\ worker' = [worker EXCEPT
                    !.delivery = IF worker.pc = "returned" THEN "ack" ELSE "nack",
                    !.pc = "handled"]
    /\ WorkerUnchanged

WorkerNext ==
    \/ ReceiveMessage
    \/ DownloadFromYoutube
    \/ DownloadFromS3
    \/ CheckAudioSource
    \/ Separate
    \/ ExtractLyrics
    \/ AnalyzePitch
    \/ Complete
    \/ HandleException
    \/ CleanupTempFiles
    \/ OnMessage

SpecWorker == WorkerInit /\ [][WorkerNext]_vars

\* ------------------------------------------------------------------------
\* KoreanG2P._decompose on every precomposed syllable
\* ------------------------------------------------------------------------
DecomposeInit ==
    /\ call_args \in { [fn |-> "_decompose", char |-> c] : c \in SyllableInputs }
    /\ call_result = NoResult
    /\ worker = [pc |-> "idle"]
    /\ input_text = <<>> /\ g2p_out = NoResult
    /\ NoJob /\ NoPerLine /\ NoMap /\ NoChunk /\ NoSyllable /\ NoProsody

CallDecompose ==
    /\ ~call_result.called
    /\ call_result' = [called |-> TRUE, value |-> Decompose(call_args.char)]
    /\ UNCHANGED << call_args, worker, g2pVars, jobVars, perLineVars, mapVars,
                    chunkVars, syllableVars, prosodyVars >>

DecomposeNext == CallDecompose

SpecDecompose == DecomposeInit /\ [][DecomposeNext]_vars

\* ========================================================================
\* Properties
\* ========================================================================
Returned == pc = "done" /\ trace.fetched

\* the lines as they enter _enforce_monotonic_lines in a finished job
BeforeEnforce ==
    RefineWithEnergyOnsets(
        CleanLyrics(IF all_words # <<>>
                    THEN GroupWordsIntoLines(all_words, lyrics_text)
                    ELSE ProportionalLines(lyrics_text, duration)),
        onset_times)

\* C1: _g2p gives every whitespace-separated word of the text at least one
\* non-silence phoneme: word_seq is the list of the words and every word
\* index occurs in ph_idx_to_word_idx at a position holding a phoneme other
\* than SP (a word without mappable characters gets the filler vowel).
C1_EveryWordHasAPhoneme ==
    g2p_out.called =>
        /\ g2p_out.word_seq = SplitWords(input_text, <<>>)
        /\ Len(g2p_out.ph_seq) = Len(g2p_out.ph_idx_to_word_idx)
        /\ \A k \in 0..(Len(g2p_out.word_seq) - 1) :
              \E i \in 1..Len(g2p_out.ph_seq) :
                  /\ g2p_out.ph_idx_to_word_idx[i] = k
                  /\ g2p_out.ph_seq[i] # "SP"

\* a text of several words, one of them without any mappable character
C1_Witness ==
    /\ g2p_out.called
    /\ Len(g2p_out.word_seq) >= 2
    /\ \E k \in 1..Len(g2p_out.word_seq) :
          ScanWord(g2p_out.word_seq[k], <<>>, <<>>) = <<>>

\* C2: the phoneme sequence of _g2p starts with exactly one SP, ends with
\* exactly one SP and holds no run of more than two SP, for every text,
\* the empty and the whitespace-only ones included.
C2_SPFraming ==
    g2p_out.called =>
        LET ph == g2p_out.ph_seq
            n == Len(ph)
        IN  /\ n >= 1
            /\ ph[1] = "SP"
            /\ ph[n] = "SP"
            /\ n >= 2 => (ph[2] # "SP" /\ ph[n - 1] # "SP")
            /\ \A i \in 1..(n - 2) :
                  ~(ph[i] = "SP" /\ ph[i + 1] = "SP" /\ ph[i + 2] = "SP")

\* a whitespace-only text has been converted
C2_Witness ==
    /\ g2p_out.called
    /\ Len(input_text) >= 2
    /\ g2p_out.word_seq = <<>>

\* C3: in the lines a finished job returns, after _enforce_monotonic_lines,
\* every line ends no later than the next line starts.
C3_LinesDoNotOverlap ==
    Returned =>
        \A i \in 1..(Len(lyrics_lines) - 1) :
            lyrics_lines[i].end_time <= lyrics_lines[i + 1].start_time

\* the aligner's words made two consecutive lines overlap, snapping ran,
\* and the job has returned
C3_Witness ==
    /\ Returned
    /\ all_words # <<>>
    /\ onset_times.ok
    /\ \E i \in 1..(Len(BeforeEnforce) - 1) :
          BeforeEnforce[i + 1].start_time < BeforeEnforce[i].end_time

\* C4 (as claimed): in the lines a finished job returns, consecutive words
\* of a line never overlap, whether onset snapping ran or failed.
C4_WordsDoNotOverlap ==
    Returned =>
        \A l \in 1..Len(lyrics_lines) :
            \A i \in 1..(Len(lyrics_lines[l].words) - 1) :
                lyrics_lines[l].words[i].end_time
                    <= lyrics_lines[l].words[i + 1].start_time

\* C5 (as claimed): the lines the per-line pipeline returns to the worker
\* do not overlap: every line ends no later than the next line starts.
C5_PerLineLinesDoNotOverlap ==
    (pc = "pl_done" /\ trace.fetched) =>
        \A i \in 1..(Len(lyrics_lines) - 1) :
            lyrics_lines[i].end_time <= lyrics_lines[i + 1].start_time

\* C6 (as claimed): a job whose lyrics hold a non-blank line returns one
\* timed line per non-blank lyric line, never an empty list.
C6_CompleteLineList ==
    (Returned /\ NonBlankLines(lyrics_text) # <<>>) =>
        /\ lyrics_lines # <<>>
        /\ Len(lyrics_lines) = Len(NonBlankLines(lyrics_text))

\* C7: the proportional fallback runs exactly when acoustic alignment gave
\* no words (an empty list or an exception); a non-empty word list, even
\* one shorter than the lyrics, is grouped into lines and kept.
C7_FallbackOnlyOnEmpty ==
    (trace.fetched /\ pc \in {"clean", "refine", "enforce", "done"}) =>
        /\ trace.fallback <=> (all_words = <<>>)
        /\ sofa.outcome = "raised" => trace.fallback
        /\ (pc = "clean" /\ all_words # <<>>) =>
               lyrics_lines = GroupWordsIntoLines(all_words, lyrics_text)

\* the aligner returned fewer words than the lyrics hold and the job
\* finished without the fallback
C7_Witness ==
    /\ Returned
    /\ ~trace.fallback
    /\ all_words # <<>>
    /\ Len(all_words) < Len(AllLyricWords(lyrics_text))

\* C8 (as claimed): align_words raises only when the audio file is missing.
C8_RaisesOnlyForMissingAudio ==
    sofa.outcome = "raised" => ~audio_exists

\* C9 (as claimed): with the audio file missing, extract_lyrics ends by
\* raising the file-not-found error, not by returning a result.
C9_MissingAudioAborts ==
    (pc = "done" /\ ~audio_exists) => trace.ended = "raised"

\* C10 (as claimed): every line of the returned lines lasts between 1.0 s
\* and 15.0 s.
C10_DurationBounds ==
    Returned =>
        \A i \in 1..Len(lyrics_lines) :
            LET d == lyrics_lines[i].end_time - lyrics_lines[i].start_time
            IN  1000 <= d /\ d <= 15000
\* C11 (as claimed): with time-ordered ASR lines that do not overlap, the
\* lines _map_api_to_whisperx_timing returns do not overlap either: every
\* line ends no later than the next one starts, however many lyric lines
\* stayed unmatched before, between and after the matched ones (at least
\* one lyric line is matched).
C11_MappedLinesDoNotOverlap ==
    (/\ mapped_lines.called
     /\ \E k \in 1..Len(mapping_call.api_lines) :
           MatchedResults(mapping_call.api_lines, mapping_call.wx_lines)[k] # None) =>
        \A i \in 1..(Len(mapped_lines.lines) - 1) :
            mapped_lines.lines[i].end_time <= mapped_lines.lines[i + 1].start_time
\* the chunk (1-based) whose text holds the word w of the call's text
ChunkOfWord(w) ==
    LET text_chunks == SplitTextForChunks(chunk_words.text,
                                          Len(ChunkStarts(chunk_words.total)))
    IN  CHOOSE i \in 1..Len(text_chunks) :
            \E k \in 1..Len(ChunkTextWords(text_chunks[i])) :
                ChunkTextWords(text_chunks[i])[k] = w

\* C12: in the list _align_chunked returns, a word of a chunk other than
\* the last starts strictly before that chunk's boundary (chunk start +
\* step) and every word starts at or after its chunk's start, so the start
\* times of different chunks lie in disjoint ranges; no word occurrence is
\* listed twice; the list is sorted by start_time.
C12_ChunkMerge ==
    merged_words.called =>
        LET ws == merged_words.words
            chunk_starts == ChunkStarts(chunk_words.total)
        IN  /\ \A k \in 1..Len(ws) :
                  LET i == ChunkOfWord(ws[k].text)
                  IN  /\ chunk_starts[i] <= ws[k].start_time
                      /\ i < Len(chunk_starts) =>
                             ws[k].start_time < chunk_starts[i] + StepMs
            /\ \A j, k \in 1..Len(ws) : j # k => ws[j].text # ws[k].text
            /\ \A k \in 1..(Len(ws) - 1) : ws[k].start_time <= ws[k + 1].start_time

\* a word that started in the overlap of a chunk other than the last was
\* dropped, and words of two chunks were merged
C12_Witness ==
    /\ merged_words.called
    /\ \E i \in 1..(Len(chunk_words.results) - 1) :
          \E k \in 1..Len(chunk_words.results[i]) :
              chunk_words.results[i][k].start_time >= StepMs
    /\ \E j, k \in 1..Len(merged_words.words) :
          ChunkOfWord(merged_words.words[j].text)
              # ChunkOfWord(merged_words.words[k].text)
\* C13 (as claimed): every line a finished job returns that has a word
\* starts where its first word starts and ends where its last word ends.
C13_LineSpansItsWords ==
    Returned =>
        \A l \in 1..Len(lyrics_lines) :
            LET line == lyrics_lines[l]
            IN  line.words # <<>> =>
                    /\ line.start_time = line.words[1].start_time
                    /\ line.end_time = line.words[Len(line.words)].end_time

\* C14 (as claimed): every word of the lines a finished job returns ends
\* no earlier than it starts.
C14_WordEndsAfterStart ==
    Returned =>
        \A l \in 1..Len(lyrics_lines) :
            \A k \in 1..Len(lyrics_lines[l].words) :
                lyrics_lines[l].words[k].end_time
                    >= lyrics_lines[l].words[k].start_time
\* C15: for a precomposed Hangul syllable _syllable_to_phonemes returns,
\* in this order, the onset phoneme unless the onset is the silent one
\* (index 11), the nucleus phoneme, and the representative coda phoneme
\* unless the coda index is 0: one to three phonemes, none of them empty,
\* and h, a, N for the syllable 한 (U+D55C).
C15_SyllablePhonemes ==
    (syllable_phonemes.called /\ 44032 <= syllable /\ syllable <= 55203) =>
        LET code == syllable - 44032
            onset_idx == code \div 588
            nucleus_idx == (code % 588) \div 28
            coda_idx == code % 28
            phs == syllable_phonemes.phonemes
        IN  /\ phs = (IF onset_idx = 11 THEN <<>> ELSE << ONSET_PHONEMES[onset_idx + 1] >>)
                      \o << NUCLEUS_PHONEMES[nucleus_idx + 1] >>
                      \o (IF coda_idx = 0 THEN <<>> ELSE << CODA_PHONEMES[coda_idx + 1] >>)
            /\ Len(phs) \in 1..3
            /\ \A k \in 1..Len(phs) : phs[k] # ""
            /\ syllable = 54620 => phs = << "h", "a", "N" >>

\* the syllable 한 has been converted, and so has a syllable with the
\* silent onset and no coda
C15_Witness ==
    /\ syllable_phonemes.called
    /\ syllable \in { 54620, 50500 }
    /\ Len(syllable_phonemes.phonemes) \in { 1, 3 }

\* the phonemes the result of _g2p attributes to word number k (from 1)
PhonemesOfWord(k) ==
    LET at == { i \in 1..Len(g2p_out.ph_seq) : g2p_out.ph_idx_to_word_idx[i] = k - 1 }
    IN  IF at = {} THEN <<>>
        ELSE LET lo == CHOOSE i \in at : \A j \in at : i <= j
                 hi == CHOOSE i \in at : \A j \in at : j <= i
             IN  SubSeq(g2p_out.ph_seq, lo, hi)

\* a word's phonemes when each maximal run of non-Hangul alphanumeric
\* characters is converted on its own: a run ends at a Hangul syllable,
\* at any other non-alphanumeric character and at the end of the word
RECURSIVE PhonemesRunByRun(_, _, _)
PhonemesRunByRun(word, run, acc) ==
    IF word = <<>> THEN acc \o Flush(run)
    ELSE LET c == Head(word)
         IN  IF IsHangul(c)
               THEN PhonemesRunByRun(Tail(word), <<>>, acc \o Flush(run) \o SyllableToPhonemes(c))
             ELSE IF IsAlnum(c)
               THEN PhonemesRunByRun(Tail(word), Append(run, c), acc)
             ELSE PhonemesRunByRun(Tail(word), <<>>, acc \o Flush(run))

\* C16: inside every word, each maximal run of non-Hangul alphanumeric
\* characters that equals, case-insensitively, a key of the whole-word
\* table is converted to exactly that entry, and a run is converted
\* character by character only when it is not a key: the phonemes of a
\* word are those of its runs and syllables, each converted on its own.
C16_TableRunsUseTable ==
    g2p_out.called =>
        \A k \in 1..Len(g2p_out.word_seq) :
            LET expected == PhonemesRunByRun(g2p_out.word_seq[k], <<>>, <<>>)
            IN  expected # <<>> => PhonemesOfWord(k) = expected

\* C17: whenever a job has caused the aligner's engine to be loaded,
\* release_model has been called on the aligner by the time the job ends,
\* by returning or by raising, also when align_words failed: no job ends
\* with the engine still loaded.
C17_ReleasedBeforeJobEnds ==
    pc = "done" => ~sofa.loaded

\* C18: after a prosody stage has failed with an exception, every word of
\* every line carries the defaults of that stage: energy 0.5 after the
\* energy stage, pitch 0 after the pitch stage, voiced 0.0 after the
\* voicing stage (the later stages leave these keys alone).
C18_FailedStageDefaults ==
    \A i \in 1..Len(prosody_segments) :
        \A j \in 1..Len(prosody_segments[i].words) :
            LET word == prosody_segments[i].words[j]
            IN  /\ "energy" \in failed_stages => word.energy = 500
                /\ "pitch" \in failed_stages => word.pitch = 0
                /\ "vad" \in failed_stages => word.voiced = 0

\* C19: every energy_curve written by _add_energy_to_words has between 4
\* and 8 samples, whatever the span of the word.
C19_CurveHasFourToEightSamples ==
    stage \in { "pitch", "vad", "done" } =>
        \A i \in 1..Len(prosody_segments) :
            \A j \in 1..Len(prosody_segments[i].words) :
                LET n == Len(prosody_segments[i].words[j].energy_curve)
                IN  4 <= n /\ n <= 8

\* C20: every energy written by _add_energy_to_words lies between 0 and 1
\* (0 and 1000 thousandths), whatever the span of the word.
C20_EnergyInUnitInterval ==
    stage \in { "pitch", "vad", "done" } =>
        \A i \in 1..Len(prosody_segments) :
            \A j \in 1..Len(prosody_segments[i].words) :
                LET energy == prosody_segments[i].words[j].energy
                IN  0 <= energy /\ energy <= 1000
\* C21: when the aligner's word list is shorter than lyrics_text.split(),
\* every lyric word the aligner did align carries, in the lines of
\* _group_words_into_lines, the start and end the aligner produced for
\* that very word.
C21_AlignedWordsKeepTheirTimes ==
    (call_result.called /\ call_args.fn = "_group_words_into_lines"
       /\ Len(call_args.all_words) < Len(AllLyricWords(call_args.lyrics_text))) =>
        LET out == AllLyricWords(call_result.lines)
        IN  \A k \in 1..Len(call_args.all_words) :
                LET w == call_args.all_words[k]
                IN  /\ out[w.widx + 1].start_time = w.start_time
                    /\ out[w.widx + 1].end_time = w.end_time
\* C22: when the engine returns a number of entries different from the
\* number of input phonemes, each entry is attributed to the first input
\* position after the last attributed one that holds the entry's phoneme,
\* and an entry whose phoneme occurs at no such position is discarded
\* while the entries after it are still attributed.
C22_RaggedEntriesMatchedInOrder ==
    (call_result.called /\ call_args.fn = "_align_chunk"
       /\ call_result.attributed # <<>>
       /\ Len(call_args.phoneme_timestamps) # Len(call_result.valid_ph_seq)) =>
        LET ts == call_args.phoneme_timestamps
            valid == call_result.valid_ph_seq
            attributed == call_result.attributed
        IN  \A k \in 1..Len(ts) :
                LET earlier == { attributed[j] : j \in 1..(k - 1) } \ { -1 }
                    candidates == { p \in 0..(Len(valid) - 1) :
                                      /\ \A q \in earlier : q < p
                                      /\ valid[p + 1] = ts[k].ph }
                IN  IF candidates = {} THEN attributed[k] = -1
                    ELSE /\ attributed[k] \in candidates
                         /\ \A p \in candidates : attributed[k] <= p

\* C23: each word _align_chunk returns starts at the least start and ends
\* at the greatest end of the entries attributed to the phonemes of that
\* word; an entry attributed to a silence position belongs to no word; a
\* word without an entry is left out; the words come in lyric order.
C23_WordSpansAreMinMax ==
    (call_result.called /\ call_args.fn = "_align_chunk") =>
        LET ts == call_args.phoneme_timestamps
            attributed == call_result.attributed
            word_map == call_result.valid_ph_word_map
            words == call_result.words
            entries(widx) == { k \in 1..Len(attributed) :
                                 /\ attributed[k] # -1
                                 /\ word_map[attributed[k] + 1] = widx }
        IN  /\ \A i \in 1..Len(words) :
                  /\ words[i].widx \in 0..(call_args.num_words - 1)
                  /\ entries(words[i].widx) # {}
                  /\ \E k \in entries(words[i].widx) :
                        words[i].start_time = RoundMs(ts[k].start)
                  /\ \E k \in entries(words[i].widx) :
                        words[i].end_time = RoundMs(ts[k].end)
                  /\ \A k \in entries(words[i].widx) :
                        /\ words[i].start_time <= RoundMs(ts[k].start)
                        /\ words[i].end_time >= RoundMs(ts[k].end)
            /\ \A i \in 1..(Len(words) - 1) : words[i].widx < words[i + 1].widx
            /\ \A widx \in 0..(call_args.num_words - 1) :
                  entries(widx) # {} => \E i \in 1..Len(words) : words[i].widx = widx
            /\ \A k \in 1..Len(attributed) :
                  (attributed[k] # -1 /\ ts[k].ph = "SP") =>
                      word_map[attributed[k] + 1] = -1

\* a word got two entries of which the second holds both the least start
\* and the greatest end, and another word was left out
C23_Witness ==
    /\ call_result.called /\ call_args.fn = "_align_chunk"
    /\ Len(call_result.words) = 1
    /\ call_args.num_words = 2
    /\ \E j, k \in 1..Len(call_result.attributed) :
          /\ j < k
          /\ call_result.attributed[j] # -1 /\ call_result.attributed[k] # -1
          /\ call_result.valid_ph_word_map[call_result.attributed[j] + 1] = 0
          /\ call_result.valid_ph_word_map[call_result.attributed[k] + 1] = 0
          /\ call_args.phoneme_timestamps[k].start < call_args.phoneme_timestamps[j].start
\* C24: _split_text_for_chunks returns exactly num_chunks pieces, and the
\* lines of the pieces, taken in order, are the non-blank lines of the
\* text in their order: none lost, none twice, none moved.
C24_SplitKeepsEveryLine ==
    (call_result.called /\ call_args.fn = "_split_text_for_chunks") =>
        LET chunks == call_result.chunks
            lines == SelectSeq(call_args.text, LAMBDA l : l # <<>>)
            before(i) == SumSeq([j \in 1..(i - 1) |-> Len(chunks[j])])
        IN  /\ Len(chunks) = call_args.num_chunks
            /\ SumSeq([j \in 1..Len(chunks) |-> Len(chunks[j])]) = Len(lines)
            /\ \A i \in 1..Len(chunks) :
                  \A k \in 1..Len(chunks[i]) : chunks[i][k] = lines[before(i) + k]

\* a text with a blank line and more lines than chunks has been split into
\* several pieces of which the last is shorter than the first
C24_Witness ==
    /\ call_result.called /\ call_args.fn = "_split_text_for_chunks"
    /\ call_args.num_chunks >= 2
    /\ \E l \in 1..Len(call_args.text) : call_args.text[l] = <<>>
    /\ Len(call_result.chunks[1]) >= 2
    /\ Len(call_result.chunks[call_args.num_chunks]) = 1

\* C25: when the text has at least as many non-blank lines as there are
\* chunks, every chunk is given at least one line.
C25_EveryChunkGetsLines ==
    (call_result.called /\ call_args.fn = "_split_text_for_chunks"
       /\ Len(SelectSeq(call_args.text, LAMBDA l : l # <<>>)) >= call_args.num_chunks) =>
        \A i \in 1..Len(call_result.chunks) : call_result.chunks[i] # <<>>
\* C26: the onset of _detect_and_trim_intro is the first frame from which
\* 15 consecutive frames are above the threshold; the function returns 0
\* when there is no such frame, when the waveform has fewer than 30
\* frames, or when the onset lies before 8 s, and the onset less 2 s
\* otherwise; a trim that is not 0 is at least 6 s and at most the onset.
C26_TrimIsOnsetLessPreroll ==
    (call_result.called /\ call_args.fn = "_detect_and_trim_intro") =>
        LET rms == call_args.rms
            n == Len(rms)
            twice_level == TwiceSingingLevel(rms)
            above == { i \in 0..(n - 1) : AboveThreshold(rms[i + 1], twice_level) }
            sustained == { i \in 0..(n - 15) : \A j \in i..(i + 14) : j \in above }
            onset == CHOOSE i \in sustained : \A j \in sustained : i <= j
            trim == call_result.trim
        IN  /\ (n < 30 \/ sustained = {}) => trim = 0
            /\ (n >= 30 /\ sustained # {}) =>
                  /\ onset * 2048 < 8 * 44100 => trim = 0
                  /\ onset * 2048 >= 8 * 44100 => trim = onset * 2048 - 2 * 44100
                  /\ trim # 0 => (trim >= 6 * 44100 /\ trim <= onset * 2048)

\* a burst shorter than 15 frames, then bleed below the threshold, then
\* singing that starts after 8 s: the intro is trimmed
C26_Witness ==
    /\ call_result.called /\ call_args.fn = "_detect_and_trim_intro"
    /\ Len(call_args.rms) >= 188
    /\ call_result.trim = 187 * 2048 - 2 * 44100
    /\ call_args.rms[1] = 20
    /\ call_args.rms[15] = 1
    /\ call_args.rms[188] = 20
\* C27: whenever no lyric line is matched to any ASR line, every lyric line
\* is given the span [0.0, 0.5], also when there is no ASR line at all.
C27_NoMatchGivesDefaultSpan ==
    (mapped_lines.called
       /\ \A k \in 1..Len(mapping_call.api_lines) :
            ~MatchedAt(mapping_call.api_lines, mapping_call.wx_lines, k)) =>
        \A k \in 1..Len(mapped_lines.lines) :
            /\ mapped_lines.lines[k].start_time = 0
            /\ mapped_lines.lines[k].end_time = UNMATCHED_STEP_MS
\* C29: the ASR lines matched to lyric lines have strictly increasing
\* indices in the order of the lyric lines: no ASR line gives its timing to
\* two lyric lines, and a later lyric line is never matched to an ASR line
\* at or before the one matched by an earlier lyric line.
C29_MatchedIndicesIncrease ==
    (mapped_lines.called /\ mapping_call.wx_lines # <<>>) =>
        LET matched == MatchedResults(mapping_call.api_lines, mapping_call.wx_lines)
        IN  \A j, k \in 1..Len(matched) :
                (j < k /\ matched[j] # None /\ matched[k] # None) =>
                    matched[j] < matched[k]

\* two lyric lines with the same text, two ASR lines with that text: the
\* second lyric line is matched to the second ASR line, not to the first
C29_Witness ==
    /\ mapped_lines.called
    /\ Len(mapping_call.api_lines) = 2 /\ Len(mapping_call.wx_lines) = 2
    /\ mapping_call.api_lines[1] = mapping_call.api_lines[2]
    /\ mapping_call.wx_lines[1].text = mapping_call.api_lines[1]
    /\ mapping_call.wx_lines[2].text = mapping_call.api_lines[1]
    /\ MatchedResults(mapping_call.api_lines, mapping_call.wx_lines) = << 1, 2 >>
    /\ mapped_lines.lines[2].start_time = mapping_call.wx_lines[2].start_time
\* C30: for every message process_audio handles, the last status published
\* when it returns or raises is terminal: "completed" or "failed".
C30_LastStatusIsTerminal ==
    worker.pc \in { "returned", "raised" } =>
        /\ worker.published # <<>>
        /\ worker.published[Len(worker.published)] \in { "completed", "failed" }
\* C28: for a code point c in 0xAC00..0xD7A3 _decompose returns (onset,
\* nucleus, coda) with 0 <= onset < 19, 0 <= nucleus < 21, 0 <= coda < 28
\* and (onset * 21 + nucleus) * 28 + coda + 0xAC00 = c; for any other code
\* point it returns None.
C28_DecomposeRecomposes ==
    (call_result.called /\ call_args.fn = "_decompose") =>
        LET c == call_args.char
            r == call_result.value
        IN  IF 44032 <= c /\ c <= 55203
            THEN /\ Len(r) = 3
                 /\ r[1] \in 0..18 /\ r[2] \in 0..20 /\ r[3] \in 0..27
                 /\ (r[1] * 21 + r[2]) * 28 + r[3] + 44032 = c
            ELSE r = <<>>

\* the syllable 한 (U+D55C) is decomposed into onset 18, nucleus 0, coda 4
C28_Witness ==
    /\ call_result.called /\ call_args.fn = "_decompose"
    /\ call_args.char = 54620
    /\ call_result.value = << 18, 0, 4 >>
====
